---- MODULE Spec2Model ----
(***************************************************************************)
(* A model of the content-strategy modules of seo-automation:              *)
(*   user_intent_analyzer.py   (UserIntentAnalyzer)                        *)
(*   topic_cluster_generator.py (ClusterContent, PillarPage,               *)
(*                               TopicClusterGenerator)                    *)
(*   content_quality_checker.py (ContentQualityChecker)                    *)
(*   cli_wrapper.py            (main and its handlers)                     *)
(*                                                                         *)
(* Text is a sequence of one-character strings, so that lower(), strip(),  *)
(* split(), startswith(), `in` and the \b-delimited regular expressions    *)
(* are computed character by character, as Python computes them.           *)
(* Every component has a specification of its own (SpecIntent,             *)
(* SpecCluster, SpecQuality, SpecCli); the variables of the other          *)
(* components stay at their initial value.                                 *)
(***************************************************************************)
EXTENDS Integers, Sequences, FiniteSets, TLC

VARIABLES intentOut, pillars, clusterOut, qualityOut, cliOut

vars == <<intentOut, pillars, clusterOut, qualityOut, cliOut>>

(***************************************************************************)
(* Characters and the str methods the modules use.                         *)
(***************************************************************************)
UpperChars ==
  <<"A","B","C","D","E","F","G","H","I","J","K","L","M",
    "N","O","P","Q","R","S","T","U","V","W","X","Y","Z">>

LowerChars ==
  <<"a","b","c","d","e","f","g","h","i","j","k","l","m",
    "n","o","p","q","r","s","t","u","v","w","x","y","z">>

DigitChars == {"0","1","2","3","4","5","6","7","8","9"}

WhitespaceChars == {" ", "\t", "\n", "\r"}

Range(s) == { s[i] : i \in DOMAIN s }

UpperSet == Range(UpperChars)

\* \w of the re module (ASCII letters, digits, underscore)
WordChars == Range(UpperChars) \cup Range(LowerChars) \cup DigitChars \cup {"_"}

\* str.lower() on one character
LowerChar(c) ==
  IF c \in UpperSet
    THEN LowerChars[CHOOSE i \in DOMAIN UpperChars : UpperChars[i] = c]
    ELSE c

\* str.lower()
StrLower(s) == [i \in DOMAIN s |-> LowerChar(s[i])]

IsWordChar(c) == c \in WordChars

IsSpaceChar(c) == c \in WhitespaceChars

\* str.strip(chars): drop leading and trailing characters that are in chars
StripChars(s, chars) ==
  LET keep == { i \in DOMAIN s : s[i] \notin chars }
  IN  IF keep = {} THEN <<>>
      ELSE LET lo == CHOOSE i \in keep : \A j \in keep : i <= j
               hi == CHOOSE i \in keep : \A j \in keep : j <= i
           IN  SubSeq(s, lo, hi)

\* str.strip()
StrStrip(s) == StripChars(s, WhitespaceChars)

\* len(str.split()): the number of maximal runs of non-whitespace characters
SplitCount(s) ==
  Cardinality({ i \in DOMAIN s :
                  /\ ~IsSpaceChar(s[i])
                  /\ (i = 1 \/ IsSpaceChar(s[i-1])) })

\* str.startswith(prefix)
StartsWith(s, prefix) ==
  /\ Len(prefix) <= Len(s)
  /\ SubSeq(s, 1, Len(prefix)) = prefix

\* whether needle stands in s at position i
MatchesAt(s, needle, i) ==
  /\ i >= 1
  /\ i + Len(needle) - 1 <= Len(s)
  /\ \A j \in DOMAIN needle : s[i + j - 1] = needle[j]

\* needle in s
Contains(s, needle) ==
  \E i \in 1..(Len(s) - Len(needle) + 1) : MatchesAt(s, needle, i)

\* "".join(parts)
RECURSIVE Concat(_)
Concat(parts) ==
  IF parts = <<>> THEN <<>> ELSE Head(parts) \o Concat(Tail(parts))

\* every sequence over S of length 0..n
SeqsUpTo(S, n) == UNION { [1..k -> S] : k \in 0..n }

(***************************************************************************)
(* user_intent_analyzer.py                                                 *)
(***************************************************************************)
INFORMATIONAL == "informational"
NAVIGATIONAL == "navigational"
COMMERCIAL == "commercial_investigation"
TRANSACTIONAL == "transactional"

\* the informational modifiers without the question words
INFORMATIONAL_MODIFIERS_NO_QUESTION_WORDS ==
  << <<"g","u","i","d","e">>,
     <<"t","u","t","o","r","i","a","l">>,
     <<"t","i","p","s">>,
     <<"l","e","a","r","n">>,
     <<"e","x","p","l","a","i","n">>,
     <<"d","e","f","i","n","i","t","i","o","n">>,
     <<"m","e","a","n","i","n","g">>,
     <<"e","x","a","m","p","l","e","s">>,
     <<"b","e","n","e","f","i","t","s">>,
     <<"d","i","f","f","e","r","e","n","c","e"," ","b","e","t","w","e","e","n">>,
     <<"v","s">>,
     <<"c","o","m","p","a","r","i","s","o","n">> >>

INFORMATIONAL_MODIFIERS ==
  << <<"h","o","w">>,
     <<"w","h","a","t">>,
     <<"w","h","y">>,
     <<"w","h","e","n">>,
     <<"w","h","e","r","e">>,
     <<"w","h","o">>,
     <<"g","u","i","d","e">>,
     <<"t","u","t","o","r","i","a","l">>,
     <<"t","i","p","s">>,
     <<"l","e","a","r","n">>,
     <<"e","x","p","l","a","i","n">>,
     <<"d","e","f","i","n","i","t","i","o","n">>,
     <<"m","e","a","n","i","n","g">>,
     <<"e","x","a","m","p","l","e","s">>,
     <<"b","e","n","e","f","i","t","s">>,
     <<"d","i","f","f","e","r","e","n","c","e"," ","b","e","t","w","e","e","n">>,
     <<"v","s">>,
     <<"c","o","m","p","a","r","i","s","o","n">> >>

NAVIGATIONAL_MODIFIERS ==
  << <<"l","o","g","i","n">>,
     <<"s","i","g","n"," ","i","n">>,
     <<"o","f","f","i","c","i","a","l"," ","s","i","t","e">>,
     <<"w","e","b","s","i","t","e">>,
     <<"h","o","m","e","p","a","g","e">>,
     <<"p","o","r","t","a","l">>,
     <<"d","a","s","h","b","o","a","r","d">>,
     <<"a","c","c","o","u","n","t">> >>

COMMERCIAL_MODIFIERS ==
  << <<"b","e","s","t">>,
     <<"t","o","p">>,
     <<"r","e","v","i","e","w">>,
     <<"r","e","v","i","e","w","s">>,
     <<"c","o","m","p","a","r","i","s","o","n">>,
     <<"c","o","m","p","a","r","e">>,
     <<"v","s">>,
     <<"v","e","r","s","u","s">>,
     <<"a","l","t","e","r","n","a","t","i","v","e">>,
     <<"a","l","t","e","r","n","a","t","i","v","e","s">>,
     <<"c","h","e","a","p","e","s","t">>,
     <<"a","f","f","o","r","d","a","b","l","e">>,
     <<"r","e","c","o","m","m","e","n","d","e","d">>,
     <<"r","a","t","i","n","g">> >>

TRANSACTIONAL_MODIFIERS ==
  << <<"b","u","y">>,
     <<"p","u","r","c","h","a","s","e">>,
     <<"o","r","d","e","r">>,
     <<"s","h","o","p">>,
     <<"p","r","i","c","e">>,
     <<"c","o","s","t">>,
     <<"c","h","e","a","p">>,
     <<"d","e","a","l">>,
     <<"d","i","s","c","o","u","n","t">>,
     <<"c","o","u","p","o","n">>,
     <<"s","u","b","s","c","r","i","b","e">>,
     <<"d","o","w","n","l","o","a","d">>,
     <<"g","e","t">>,
     <<"h","i","r","e">>,
     <<"b","o","o","k">>,
     <<"r","e","s","e","r","v","e">>,
     <<"a","p","p","o","i","n","t","m","e","n","t">>,
     <<"q","u","o","t","e">> >>

\* the order in which _compile_patterns fills the dict, hence the iteration
\* order of intent_patterns, intent_scores and matched_modifiers
IntentOrder == <<INFORMATIONAL, NAVIGATIONAL, COMMERCIAL, TRANSACTIONAL>>

Intents == Range(IntentOrder)

ModifiersOf(intent) ==
  CASE intent = INFORMATIONAL -> INFORMATIONAL_MODIFIERS
    [] intent = NAVIGATIONAL -> NAVIGATIONAL_MODIFIERS
    [] intent = COMMERCIAL -> COMMERCIAL_MODIFIERS
    [] intent = TRANSACTIONAL -> TRANSACTIONAL_MODIFIERS

\* re.escape: a backslash before every character that is not a word character
\* (of the characters the modifiers hold, only the space is escaped)
RECURSIVE ReEscape(_)
ReEscape(s) ==
  IF s = <<>> THEN <<>>
  ELSE (IF IsWordChar(Head(s)) THEN <<Head(s)>> ELSE <<"\\", Head(s)>>)
       \o ReEscape(Tail(s))

\* one compiled pattern: re.compile(r'\b' + re.escape(mod) + r'\b', re.IGNORECASE);
\* `pattern` is the pattern's text, `literal` the text it matches
CompilePattern(mod) ==
  [ pattern |-> <<"\\", "b">> \o ReEscape(mod) \o <<"\\", "b">>,
    literal |-> mod ]

\* _compile_patterns
intent_patterns ==
  [ intent \in Intents |->
      [ i \in DOMAIN ModifiersOf(intent) |-> CompilePattern(ModifiersOf(intent)[i]) ] ]

\* \b at position p of s (between s[p-1] and s[p])
WordBoundary(s, p) ==
  LET before == p - 1 \in DOMAIN s /\ IsWordChar(s[p-1])
      after  == p \in DOMAIN s /\ IsWordChar(s[p])
  IN  before # after

\* pattern.search(s) is not None
PatternSearch(p, s) ==
  LET lit == p.literal
      n == Len(lit)
  IN  \E i \in 1..(Len(s) - n + 1) :
        /\ WordBoundary(s, i)
        /\ WordBoundary(s, i + n)
        /\ \A j \in 1..n : LowerChar(s[i + j - 1]) = LowerChar(lit[j])

\* round(n / d, 0) for n >= 0, d > 0, ties to the even neighbour.  Python
\* rounds the double nearest to n/d: the two agree unless n/d is a tie that
\* the double does not hold exactly.
RoundHalfEven(n, d) ==
  LET q == n \div d
      r == n % d
  IN  IF 2 * r < d THEN q
      ELSE IF 2 * r > d THEN q + 1
      ELSE IF q % 2 = 0 THEN q ELSE q + 1

\* max(items, key=lambda x: x[1])[0]: the key of the first item with the
\* greatest value; items is a sequence of <<key, value>>
RECURSIVE PyMaxFrom(_, _)
PyMaxFrom(best, rest) ==
  IF rest = <<>> THEN best
  ELSE PyMaxFrom(IF Head(rest)[2] > best[2] THEN Head(rest) ELSE best, Tail(rest))

\* a max that keeps the last of equal maxima (>= where the code has >)
RECURSIVE PyMaxLastFrom(_, _)
PyMaxLastFrom(best, rest) ==
  IF rest = <<>> THEN best
  ELSE PyMaxLastFrom(IF Head(rest)[2] >= best[2] THEN Head(rest) ELSE best, Tail(rest))

PyMaxKeyLast(items) == PyMaxLastFrom(Head(items), Tail(items))[1]

PyMaxKey(items) == PyMaxFrom(Head(items), Tail(items))[1]

\* a sum that stops after the first element
SumSeqFirstOnly(s) == IF s = <<>> THEN 0 ELSE Head(s)

RECURSIVE SumSeq(_)
SumSeq(s) == IF s = <<>> THEN 0 ELSE Head(s) + SumSeq(Tail(s))

\* the greatest element of a non-empty sequence of numbers
MaxSeq(s) == CHOOSE x \in Range(s) : \A y \in Range(s) : y <= x

\* _apply_heuristics without the test for '?', 'how' and 'what' in its second rule
apply_heuristics_any_short(query) ==
  IF \/ StartsWith(query, <<"h","o","w"," ">>)
     \/ StartsWith(query, <<"w","h","a","t"," ">>)
     \/ StartsWith(query, <<"w","h","y"," ">>)
     \/ StartsWith(query, <<"w","h","e","n"," ">>)
     \/ StartsWith(query, <<"w","h","e","r","e"," ">>)
    THEN <<INFORMATIONAL, 80>>
  ELSE IF SplitCount(query) <= 2
    THEN <<NAVIGATIONAL, 60>>
  ELSE IF SplitCount(query) >= 3
    THEN <<INFORMATIONAL, 50>>
  ELSE <<INFORMATIONAL, 40>>

\* _apply_heuristics; the confidence is in hundredths
apply_heuristics(query) ==
  IF \/ StartsWith(query, <<"h","o","w"," ">>)
     \/ StartsWith(query, <<"w","h","a","t"," ">>)
     \/ StartsWith(query, <<"w","h","y"," ">>)
     \/ StartsWith(query, <<"w","h","e","n"," ">>)
     \/ StartsWith(query, <<"w","h","e","r","e"," ">>)
    THEN <<INFORMATIONAL, 80>>
  ELSE IF /\ SplitCount(query) <= 2
          /\ ~ \/ Contains(query, <<"?">>)
               \/ Contains(query, <<"h","o","w">>)
               \/ Contains(query, <<"w","h","a","t">>)
    THEN <<NAVIGATIONAL, 60>>
  ELSE IF SplitCount(query) >= 3
    THEN <<INFORMATIONAL, 50>>
  ELSE <<INFORMATIONAL, 40>>

\* the static table of _get_recommendations, by intent
RecommendationTable ==
  [ intent \in Intents |->
      CASE intent = INFORMATIONAL ->
             [ content_type |-> "Blog post, guide, tutorial, how-to article",
               format |-> "Long-form content (1,500-3,000 words)",
               cta |-> "Subscribe to newsletter, download guide, read related content" ]
        [] intent = NAVIGATIONAL ->
             [ content_type |-> "Homepage, brand page, login page",
               format |-> "Clear navigation and branding",
               cta |-> "Sign up, login, explore products/services" ]
        [] intent = COMMERCIAL ->
             [ content_type |-> "Comparison article, review, buyer's guide",
               format |-> "Structured comparison (1,500-2,500 words)",
               cta |-> "Read full review, compare products, get pricing" ]
        [] intent = TRANSACTIONAL ->
             [ content_type |-> "Product page, service page, pricing page",
               format |-> "Conversion-focused layout",
               cta |-> "Buy now, add to cart, get quote, subscribe" ] ]

\* _get_recommendations
get_recommendations(intent) ==
  IF intent \in DOMAIN RecommendationTable
    THEN RecommendationTable[intent]
    ELSE RecommendationTable[INFORMATIONAL]

\* the matches list of one intent: pattern.pattern.strip(r'\b') of every
\* pattern that is found, in pattern order
MatchesOf(intent, query_lower) ==
  LET pats == intent_patterns[intent]
      found == SelectSeq(pats, LAMBDA p : PatternSearch(p, query_lower))
  IN  [ i \in DOMAIN found |-> StripChars(found[i].pattern, {"\\", "b"}) ]

\* analyze_query; confidence is round(confidence, 2) in hundredths
analyze_query(query) ==
  LET query_lower == StrStrip(StrLower(query))
      matched_modifiers == [ intent \in Intents |-> MatchesOf(intent, query_lower) ]
      intent_scores == [ intent \in Intents |-> Len(matched_modifiers[intent]) ]
      items == [ i \in DOMAIN IntentOrder |->
                   <<IntentOrder[i], intent_scores[IntentOrder[i]]>> ]
      values == [ i \in DOMAIN IntentOrder |-> intent_scores[IntentOrder[i]] ]
      decided ==
        IF \A i \in DOMAIN values : values[i] = 0
          THEN apply_heuristics(query_lower)
          ELSE LET max_score == MaxSeq(values)
                   total_score == SumSeq(values)
               IN  << PyMaxKey(items),
                      IF total_score > 0
                        THEN RoundHalfEven(100 * max_score, total_score)
                        ELSE 50 >>
      primary_intent == decided[1]
  IN  [ query |-> query,
        primary_intent |-> primary_intent,
        confidence |-> decided[2],
        intent_scores |-> intent_scores,
        matched_modifiers |->
          IF primary_intent \in DOMAIN matched_modifiers
            THEN matched_modifiers[primary_intent] ELSE <<>>,
        recommendations |-> get_recommendations(primary_intent) ]

\* analyze_batch with the results in the reverse of the input order
analyze_batch_reversed(queries) ==
  [ i \in DOMAIN queries |-> analyze_query(queries[Len(queries) + 1 - i]) ]

\* analyze_batch
analyze_batch(queries) == [ i \in DOMAIN queries |-> analyze_query(queries[i]) ]

\* get_intent_distribution: the dict it returns, or the exception it raises;
\* percentages are round(.., 1) in tenths
get_intent_distribution(queries) ==
  LET results == analyze_batch(queries)
      distribution ==
        [ intent \in Intents |->
            Cardinality({ i \in DOMAIN results : results[i].primary_intent = intent }) ]
      total == Len(queries)
      items == [ i \in DOMAIN IntentOrder |->
                   <<IntentOrder[i], distribution[IntentOrder[i]]>> ]
  IN  IF total = 0
        THEN [ raised |-> "ZeroDivisionError" ]
        ELSE [ raised |-> "none",
               total_queries |-> total,
               distribution |-> distribution,
               percentages |->
                 [ intent \in Intents |-> RoundHalfEven(distribution[intent] * 1000, total) ],
               dominant_intent |-> PyMaxKey(items) ]

(***************************************************************************)
(* The analyzer is stateless: a run is one call.  Init draws the call and   *)
(* its argument, the action of the called method returns its result.        *)
(***************************************************************************)
MaxPieces == 3
MaxBatch == 2

\* the pieces queries are put together from: interrogatives and modifiers of
\* three intents, a letter that turns "how " into "show ", a plain word, a
\* question mark, an upper-case modifier and a word character that is no letter
QueryPieces ==
  { <<"h","o","w"," ">>, <<"w","h","a","t"," ">>, <<"s">>, <<"x"," ">>, <<"?">>,
    <<"v","s"," ">>, <<"b","u","y"," ">>, <<"T","o","p"," ">>, <<"_">> }

Queries == { Concat(ps) : ps \in SeqsUpTo(QueryPieces, MaxPieces) }

BatchQueries == { Concat(ps) : ps \in SeqsUpTo(QueryPieces, 1) }

Batches == SeqsUpTo(BatchQueries, MaxBatch)

IntentIdle == [ pc |-> "idle" ]

IntentCalls ==
  { [ pc |-> "call", op |-> "analyze_query", query |-> q, queries |-> <<>> ] : q \in Queries }
  \cup
  { [ pc |-> "call", op |-> o, query |-> <<>>, queries |-> qs ] :
      o \in {"analyze_batch", "get_intent_distribution"}, qs \in Batches }

AnalyzeQuery ==
  /\ intentOut.pc = "call"
  /\ intentOut.op = "analyze_query"
  /\ intentOut' = [ intentOut EXCEPT !.pc = "done" ] @@ ( "ret" :> analyze_query(intentOut.query) )
  /\ UNCHANGED <<pillars, clusterOut, qualityOut, cliOut>>

AnalyzeBatch ==
  /\ intentOut.pc = "call"
  /\ intentOut.op = "analyze_batch"
  /\ intentOut' = [ intentOut EXCEPT !.pc = "done" ] @@ ( "ret" :> analyze_batch(intentOut.queries) )
  /\ UNCHANGED <<pillars, clusterOut, qualityOut, cliOut>>

GetIntentDistribution ==
  /\ intentOut.pc = "call"
  /\ intentOut.op = "get_intent_distribution"
  /\ intentOut' = [ intentOut EXCEPT !.pc = "done" ]
                    @@ ( "ret" :> get_intent_distribution(intentOut.queries) )
  /\ UNCHANGED <<pillars, clusterOut, qualityOut, cliOut>>

(***************************************************************************)
(* topic_cluster_generator.py                                              *)
(*                                                                         *)
(* A title and a url_slug are character sequences (the slug is computed    *)
(* from the title); the other text fields are never looked into and are    *)
(* strings.  A dict is a function from its keys.                           *)
(***************************************************************************)
\* dict.get(key, default)
DictGet(d, key, default) == IF key \in DOMAIN d THEN d[key] ELSE default

\* title.lower().replace(' ', '-')
Slugify(title) ==
  [ i \in DOMAIN title |-> IF LowerChar(title[i]) = " " THEN "-" ELSE LowerChar(title[i]) ]

\* the slug default without lower()
SlugifyKeepCase(title) ==
  [ i \in DOMAIN title |-> IF title[i] = " " THEN "-" ELSE title[i] ]

\* ClusterContent(...) with __post_init__
ClusterContent(title, target_keyword, search_volume, difficulty, word_count, content_type, url_slug) ==
  [ title |-> title,
    target_keyword |-> target_keyword,
    search_volume |-> search_volume,
    difficulty |-> difficulty,
    word_count |-> word_count,
    content_type |-> content_type,
    url_slug |-> IF url_slug = <<>> THEN Slugify(title) ELSE url_slug ]

\* PillarPage(...) with __post_init__; clusters starts empty
PillarPage(title, target_keyword, description, word_count, url_slug) ==
  [ title |-> title,
    target_keyword |-> target_keyword,
    description |-> description,
    clusters |-> <<>>,
    word_count |-> word_count,
    url_slug |-> IF url_slug = <<>> THEN Slugify(title) ELSE url_slug ]

\* PillarPage.add_cluster
add_cluster(pillar, cluster) ==
  [ pillar EXCEPT !.clusters = Append(@, cluster) ]

\* SUBTOPIC_TEMPLATES: each template is the text before and after '{topic}'
SUBTOPIC_TEMPLATES ==
  [ guide |->
      << <<"What is ", "">>, <<"How to ", "">>, <<"", " for beginners">>,
         <<"", " best practices">>, <<"", " tips and tricks">>,
         <<"", " tools and resources">>, <<"", " examples">>,
         <<"", " mistakes to avoid">>, <<"", " checklist">>,
         <<"", " step by step guide">> >>,
    product |->
      << <<"Best ", "">>, <<"", " reviews">>, <<"", " comparison">>,
         <<"", " pricing">>, <<"", " features">>, <<"", " alternatives">>,
         <<"How to choose ", "">>, <<"", " for small business">>,
         <<"", " for enterprise">>, <<"", " vs competitors">> >>,
    service |->
      << <<"", " services">>, <<"", " cost">>, <<"How to hire ", "">>,
         <<"", " benefits">>, <<"", " process">>, <<"", " case studies">>,
         <<"", " ROI">>, <<"", " consultant">>, <<"", " agency">>,
         <<"DIY ", " vs professional">> >> ]

\* seq[:count] of Python: a negative count counts from the end
PySliceTo(seq, count) ==
  IF count >= 0
    THEN SubSeq(seq, 1, IF count < Len(seq) THEN count ELSE Len(seq))
    ELSE SubSeq(seq, 1, IF Len(seq) + count > 0 THEN Len(seq) + count ELSE 0)

\* seq[lo:hi] of Python for 0 <= lo <= hi (0-based, hi exclusive)
PySlice(seq, lo, hi) ==
  SubSeq(seq, lo + 1, IF hi < Len(seq) THEN hi ELSE Len(seq))

\* generate_cluster_ideas
generate_cluster_ideas(pillar_topic, template_type, count) ==
  LET templates == DictGet(SUBTOPIC_TEMPLATES, template_type, SUBTOPIC_TEMPLATES["guide"])
      taken == PySliceTo(templates, count)
  IN  [ i \in DOMAIN taken |-> taken[i][1] \o pillar_topic \o taken[i][2] ]

\* add_clusters_to_pillar: the pillar after the call
RECURSIVE add_clusters_to_pillar(_, _)
add_clusters_to_pillar(pillar, cluster_data) ==
  IF cluster_data = <<>> THEN pillar
  ELSE LET data == Head(cluster_data)
           cluster ==
             ClusterContent(DictGet(data, "title", <<>>),
                            DictGet(data, "target_keyword", ""),
                            DictGet(data, "search_volume", 0),
                            DictGet(data, "difficulty", "medium"),
                            DictGet(data, "word_count", 1500),
                            DictGet(data, "content_type", "blog_post"),
                            <<>>)
       IN  add_clusters_to_pillar(add_cluster(pillar, cluster), Tail(cluster_data))

\* the cluster_to_cluster edges that start at the cluster at 0-based index i
ClusterEdgesFrom(pillar, i) ==
  LET cluster1 == pillar.clusters[i + 1]
      next2 == PySlice(pillar.clusters, i + 1, i + 3)
      linked == SelectSeq(next2, LAMBDA cluster2 : cluster1 # cluster2)
  IN  [ k \in DOMAIN linked |->
          [ from |-> cluster1.url_slug,
            to |-> linked[k].url_slug,
            anchor_text |-> linked[k].target_keyword,
            context |-> <<"Related topic link">> ] ]

\* generate_internal_linking_strategy
generate_internal_linking_strategy(pillar) ==
  [ pillar_to_clusters |->
      [ i \in DOMAIN pillar.clusters |->
          [ from |-> pillar.url_slug,
            to |-> pillar.clusters[i].url_slug,
            anchor_text |-> pillar.clusters[i].target_keyword,
            context |-> <<"Link from pillar page section about ", pillar.clusters[i].title>> ] ],
    clusters_to_pillar |->
      [ i \in DOMAIN pillar.clusters |->
          [ from |-> pillar.clusters[i].url_slug,
            to |-> pillar.url_slug,
            anchor_text |-> pillar.target_keyword,
            context |-> <<"Link to main ", pillar.title, " guide">> ] ],
    cluster_to_cluster |->
      Concat([ i \in DOMAIN pillar.clusters |-> ClusterEdgesFrom(pillar, i - 1) ]) ]

\* json.dumps writes a str as a JSON string and an int as a JSON number
JsonString(s) == [ json |-> "string", value |-> s ]
JsonNumber(n) == [ json |-> "number", value |-> n ]

\* json.loads of a JSON string or number
JsonValue(node) == node.value

\* the 'clusters' list of _export_json
ExportedClusters(pillar) ==
  [ i \in DOMAIN pillar.clusters |->
      LET c == pillar.clusters[i]
      IN  [ title |-> JsonString(c.title),
            target_keyword |-> JsonString(c.target_keyword),
            search_volume |-> JsonNumber(c.search_volume),
            difficulty |-> JsonString(c.difficulty),
            word_count |-> JsonNumber(c.word_count),
            url_slug |-> JsonString(c.url_slug) ] ]

\* _export_json: the JSON document json.dumps writes
export_json(pillar) ==
  [ pillar |->
      [ title |-> JsonString(pillar.title),
        target_keyword |-> JsonString(pillar.target_keyword),
        description |-> JsonString(pillar.description),
        word_count |-> JsonNumber(pillar.word_count),
        url_slug |-> JsonString(pillar.url_slug) ],
    clusters |-> ExportedClusters(pillar),
    internal_linking |-> generate_internal_linking_strategy(pillar) ]

\* _export_markdown: the lines of the text, each a tuple of its parts
export_markdown(pillar) ==
  << <<"# Topic Cluster: ", pillar.title>>,
     <<"**Target Keyword:** ", pillar.target_keyword>>,
     <<"**Description:** ", pillar.description>>,
     <<"**Word Count:** ", pillar.word_count>>,
     <<"## Cluster Content">>,
     <<"| Title | Target Keyword | Search Volume | Difficulty | Word Count |">>,
     <<"|-------|----------------|---------------|------------|------------|">> >>
  \o [ i \in DOMAIN pillar.clusters |->
         LET c == pillar.clusters[i]
         IN  <<"| ", c.title, c.target_keyword, c.search_volume, c.difficulty, c.word_count>> ]

\* the characters chr(65), chr(66), ... up to chr(95)
AsciiFrom65 ==
  <<"A","B","C","D","E","F","G","H","I","J","K","L","M",
    "N","O","P","Q","R","S","T","U","V","W","X","Y","Z",
    "[","\\","]","^","_">>

\* a chr that is one letter behind
ChrOneBehind(n) == AsciiFrom65[n - 65]

\* chr(n) for 65 <= n <= 95
Chr(n) == AsciiFrom65[n - 64]

\* _export_mermaid: the lines of the diagram, each a tuple of its parts
\* ("fence" stands for the three backquotes that open and close the block)
export_mermaid(pillar) ==
  LET n == Len(pillar.clusters)
      pillar_id == "A"
  IN  << <<"fence", "mermaid">>, <<"graph TD">>, <<"node", pillar_id, pillar.title>> >>
      \o [ i \in 1..n |-> <<"node", Chr(66 + i - 1), pillar.clusters[i].title>> ]
      \o Concat([ i \in 1..n |-> << <<"edge", pillar_id, Chr(66 + i - 1)>>,
                                     <<"edge", Chr(66 + i - 1), pillar_id>> >> ])
      \o << <<"">>,
             <<"style", pillar_id, "fill:#4CAF50,stroke:#2E7D32,stroke-width:3px,color:#fff">> >>
      \o [ i \in 1..n |->
             <<"style", Chr(66 + i - 1), "fill:#2196F3,stroke:#1565C0,stroke-width:2px,color:#fff">> ]
      \o << <<"fence">> >>

\* export_cluster_map
export_cluster_map(pillar, format) ==
  IF format = "json" THEN [ format |-> "json", text |-> export_json(pillar) ]
  ELSE IF format = "markdown" THEN [ format |-> "markdown", text |-> export_markdown(pillar) ]
  ELSE IF format = "mermaid" THEN [ format |-> "mermaid", text |-> export_mermaid(pillar) ]
  ELSE [ format |-> "json", text |-> export_json(pillar) ]

\* _calculate_completeness without the cap of the cluster count at 10
calculate_completeness_uncapped(pillar) ==
  LET n == Len(pillar.clusters)
      adequate == Cardinality({ i \in DOMAIN pillar.clusters :
                                  pillar.clusters[i].word_count >= 1500 })
      den == IF n = 0 THEN 100 ELSE 100 * n
      unit == IF n = 0 THEN 1 ELSE n
      pillarPart == IF pillar.word_count >= 3000 THEN 30 * den
                    ELSE pillar.word_count * unit
      lengthPart == IF n = 0 THEN 0 ELSE 3000 * adequate
  IN  RoundHalfEven(10 * (400 * n * unit + pillarPart + lengthPart), den)

\* _calculate_completeness: round(score, 1) in tenths
calculate_completeness(pillar) ==
  LET n == Len(pillar.clusters)
      adequate == Cardinality({ i \in DOMAIN pillar.clusters :
                                  pillar.clusters[i].word_count >= 1500 })
      \* the three terms over the common denominator 100 * n (100 when n = 0)
      den == IF n = 0 THEN 100 ELSE 100 * n
      unit == IF n = 0 THEN 1 ELSE n
      clusterPart == IF n >= 10 THEN 40 * den ELSE 400 * n * unit
      pillarPart == IF pillar.word_count >= 3000 THEN 30 * den
                    ELSE pillar.word_count * unit
      lengthPart == IF n = 0 THEN 0 ELSE 3000 * adequate
  IN  RoundHalfEven(10 * (clusterPart + pillarPart + lengthPart), den)

\* _get_coverage_recommendations that takes a cluster of exactly 1500 words
\* for a short one
get_coverage_recommendations_short_at_1500(pillar) ==
  LET n == Len(pillar.clusters)
      short == Cardinality({ i \in DOMAIN pillar.clusters :
                               pillar.clusters[i].word_count <= 1500 })
      recommendations ==
        (IF n < 10
           THEN << <<"Add ", 10 - n, " more cluster pieces (minimum 10 recommended)">> >>
           ELSE <<>>)
        \o (IF pillar.word_count < 3000
              THEN << <<"Increase pillar word count by ", 3000 - pillar.word_count, " words">> >>
              ELSE <<>>)
        \o (IF short > 0
              THEN << <<"Expand ", short, " cluster pieces to at least 1,500 words">> >>
              ELSE <<>>)
  IN  IF recommendations = <<>>
        THEN << <<"Cluster coverage is excellent! Focus on content quality and promotion.">> >>
        ELSE recommendations

\* _get_coverage_recommendations; a message is a tuple of its parts
get_coverage_recommendations(pillar) ==
  LET n == Len(pillar.clusters)
      short == Cardinality({ i \in DOMAIN pillar.clusters :
                               pillar.clusters[i].word_count < 1500 })
      recommendations ==
        (IF n < 10
           THEN << <<"Add ", 10 - n, " more cluster pieces (minimum 10 recommended)">> >>
           ELSE <<>>)
        \o (IF pillar.word_count < 3000
              THEN << <<"Increase pillar word count by ", 3000 - pillar.word_count, " words">> >>
              ELSE <<>>)
        \o (IF short > 0
              THEN << <<"Expand ", short, " cluster pieces to at least 1,500 words">> >>
              ELSE <<>>)
  IN  IF recommendations = <<>>
        THEN << <<"Cluster coverage is excellent! Focus on content quality and promotion.">> >>
        ELSE recommendations

\* the difficulty labels in order of first appearance (the keys of the dict)
RECURSIVE FirstAppearances(_, _)
FirstAppearances(seen, labels) ==
  IF labels = <<>> THEN seen
  ELSE FirstAppearances(IF Head(labels) \in Range(seen) THEN seen
                        ELSE Append(seen, Head(labels)), Tail(labels))

\* analyze_cluster_coverage with the average taken without the test for
\* total_clusters > 0: the division raises for a pillar without clusters
analyze_cluster_coverage_unguarded(pillar) ==
  LET total_clusters == Len(pillar.clusters)
      words == [ i \in DOMAIN pillar.clusters |-> pillar.clusters[i].word_count ]
      labels == [ i \in DOMAIN pillar.clusters |-> pillar.clusters[i].difficulty ]
      keys == FirstAppearances(<<>>, labels)
  IN  IF total_clusters = 0
        THEN [ raised |-> "ZeroDivisionError" ]
        ELSE [ pillar_title |-> pillar.title,
               total_clusters |-> total_clusters,
               total_word_count |-> pillar.word_count + SumSeq(words),
               average_cluster_length |-> RoundHalfEven(SumSeq(words), total_clusters),
               difficulty_distribution |->
                 [ k \in DOMAIN keys |->
                     <<keys[k], Cardinality({ i \in DOMAIN labels : labels[i] = keys[k] })>> ],
               completeness_score |-> calculate_completeness(pillar),
               recommendations |-> get_coverage_recommendations(pillar) ]

\* analyze_cluster_coverage
analyze_cluster_coverage(pillar) ==
  LET total_clusters == Len(pillar.clusters)
      words == [ i \in DOMAIN pillar.clusters |-> pillar.clusters[i].word_count ]
      labels == [ i \in DOMAIN pillar.clusters |-> pillar.clusters[i].difficulty ]
      keys == FirstAppearances(<<>>, labels)
  IN  [ pillar_title |-> pillar.title,
        total_clusters |-> total_clusters,
        total_word_count |-> pillar.word_count + SumSeq(words),
        average_cluster_length |->
          IF total_clusters > 0 THEN RoundHalfEven(SumSeq(words), total_clusters) ELSE 0,
        difficulty_distribution |->
          [ k \in DOMAIN keys |->
              <<keys[k], Cardinality({ i \in DOMAIN labels : labels[i] = keys[k] })>> ],
        completeness_score |-> calculate_completeness(pillar),
        recommendations |-> get_coverage_recommendations(pillar) ]

\* _dict_to_pillar of cli_wrapper.py
DictToCluster(cluster_data) ==
  ClusterContent(DictGet(cluster_data, "title", <<>>),
                 DictGet(cluster_data, "target_keyword", ""),
                 DictGet(cluster_data, "search_volume", 0),
                 DictGet(cluster_data, "difficulty", "medium"),
                 DictGet(cluster_data, "word_count", 1500),
                 "blog_post",
                 DictGet(cluster_data, "url_slug", <<>>))

dict_to_pillar(pillar_data) ==
  LET pillar == PillarPage(DictGet(pillar_data, "title", <<>>),
                           DictGet(pillar_data, "target_keyword", ""),
                           DictGet(pillar_data, "description", ""),
                           DictGet(pillar_data, "word_count", 3000),
                           DictGet(pillar_data, "url_slug", <<>>))
      listed == DictGet(pillar_data, "clusters", <<>>)
  IN  [ pillar EXCEPT !.clusters = [ i \in DOMAIN listed |-> DictToCluster(listed[i]) ] ]

\* json.loads of an exported document, as the mapping _dict_to_pillar reads:
\* the fields of 'pillar' and the list 'clusters'
LoadedPillarData(doc) ==
  [ title |-> JsonValue(doc.pillar.title),
    target_keyword |-> JsonValue(doc.pillar.target_keyword),
    description |-> JsonValue(doc.pillar.description),
    word_count |-> JsonValue(doc.pillar.word_count),
    url_slug |-> JsonValue(doc.pillar.url_slug),
    clusters |->
      [ i \in DOMAIN doc.clusters |->
          [ k \in DOMAIN doc.clusters[i] |-> JsonValue(doc.clusters[i][k]) ] ] ]

(***************************************************************************)
(* One TopicClusterGenerator instance: `pillars` is its session list, and   *)
(* clusterOut holds what the last call returned.  A pillar is named by its  *)
(* position in the session list.                                            *)
(***************************************************************************)
ClusterIdle == [ pc |-> "idle" ]

MaxPillars == 2
MaxClusters == 3

\* the arguments of create_pillar; word_count is optional
PillarInputs ==
  { [ title |-> <<"S","E","O"," ","G","u","i","d","e">>, target_keyword |-> "seo",
      description |-> "all about seo" ],
    [ title |-> <<>>, target_keyword |-> "", description |-> "",
      word_count |-> 1200 ] }

\* the dicts add_clusters_to_pillar is given: one with every key, one with
\* the title alone
ClusterDicts ==
  { [ title |-> <<"O","n"," ","P","a","g","e">>, target_keyword |-> "on page seo",
      search_volume |-> 900, difficulty |-> "high", word_count |-> 800,
      content_type |-> "video" ],
    [ title |-> <<"l","i","n","k","s">> ] }

ExportFormats == {"json", "markdown", "mermaid", "yaml"}

\* the pillars whose coverage is analysed on their own: up to
\* MaxCoverageClusters clusters, the first `short` of them one word under the
\* recommended 1500 and the others with the default length
MaxCoverageClusters == 11

CoverageWordCounts == {1200, 2999, 3000, 4000}

CoverageClusterData(n, short) ==
  [ i \in 1..n |->
      IF i <= short
        THEN [ title |-> <<"s","h","o","r","t">>, difficulty |-> "low", word_count |-> 1499 ]
        ELSE [ title |-> <<"l","i","n","k","s">> ] ]

CoveragePillars ==
  { add_clusters_to_pillar(PillarPage(<<"S","E","O">>, "seo", "", word_count, <<>>),
                           CoverageClusterData(shape[1], shape[2])) :
      word_count \in CoverageWordCounts,
      shape \in { s \in (0..MaxCoverageClusters) \X (0..MaxCoverageClusters) : s[2] <= s[1] } }

IdeaTopics == {"coffee"}
IdeaTypes == {"guide", "product", "service", "recipe"}
IdeaCounts == {-1, 5, 12}

TotalClusters == SumSeq([ i \in DOMAIN pillars |-> Len(pillars[i].clusters) ])

\* create_pillar that puts the new pillar at the front of the session list
CreatePillarAtFront ==
  /\ Len(pillars) < MaxPillars
  /\ \E a \in PillarInputs :
       LET pillar == PillarPage(a.title, a.target_keyword, a.description,
                                DictGet(a, "word_count", 3000), <<>>)
       IN  /\ pillars' = <<pillar>> \o pillars
           /\ clusterOut' = [ pc |-> "returned", op |-> "create_pillar", ret |-> pillar ]
  /\ UNCHANGED <<intentOut, qualityOut, cliOut>>

CreatePillar ==
  /\ Len(pillars) < MaxPillars
  /\ \E a \in PillarInputs :
       LET pillar == PillarPage(a.title, a.target_keyword, a.description,
                                DictGet(a, "word_count", 3000), <<>>)
       IN  /\ pillars' = Append(pillars, pillar)
           /\ clusterOut' = [ pc |-> "returned", op |-> "create_pillar", ret |-> pillar ]
  /\ UNCHANGED <<intentOut, qualityOut, cliOut>>

GenerateClusterIdeas ==
  /\ \E topic \in IdeaTopics, type \in IdeaTypes, count \in IdeaCounts :
       clusterOut' = [ pc |-> "returned", op |-> "generate_cluster_ideas",
                       pillar_topic |-> topic, template_type |-> type, count |-> count,
                       ret |-> generate_cluster_ideas(topic, type, count) ]
  /\ UNCHANGED <<intentOut, pillars, qualityOut, cliOut>>

AddClustersToPillar ==
  /\ \E i \in DOMAIN pillars :
       \E cluster_data \in SeqsUpTo(ClusterDicts, MaxClusters - TotalClusters) :
         /\ pillars' = [ pillars EXCEPT ![i] = add_clusters_to_pillar(@, cluster_data) ]
         /\ clusterOut' = [ pc |-> "returned", op |-> "add_clusters_to_pillar", index |-> i ]
  /\ UNCHANGED <<intentOut, qualityOut, cliOut>>

GenerateInternalLinkingStrategy ==
  /\ \E i \in DOMAIN pillars :
       clusterOut' = [ pc |-> "returned", op |-> "generate_internal_linking_strategy",
                       index |-> i,
                       ret |-> generate_internal_linking_strategy(pillars[i]) ]
  /\ UNCHANGED <<intentOut, pillars, qualityOut, cliOut>>

AnalyzeClusterCoverage ==
  /\ \E i \in DOMAIN pillars :
       clusterOut' = [ pc |-> "returned", op |-> "analyze_cluster_coverage",
                       index |-> i, ret |-> analyze_cluster_coverage(pillars[i]) ]
  /\ UNCHANGED <<intentOut, pillars, qualityOut, cliOut>>

ExportClusterMap ==
  /\ \E i \in DOMAIN pillars, format \in ExportFormats :
       clusterOut' = [ pc |-> "returned", op |-> "export_cluster_map",
                       index |-> i, ret |-> export_cluster_map(pillars[i], format) ]
  /\ UNCHANGED <<intentOut, pillars, qualityOut, cliOut>>

\* the caller parses the JSON export it just received and rebuilds the pillar
RebuildFromExport ==
  /\ clusterOut.pc = "returned"
  /\ clusterOut.op = "export_cluster_map"
  /\ clusterOut.ret.format = "json"
  /\ clusterOut' = [ pc |-> "returned", op |-> "rebuild", index |-> clusterOut.index,
                     ret |-> dict_to_pillar(LoadedPillarData(clusterOut.ret.text)) ]
  /\ UNCHANGED <<intentOut, pillars, qualityOut, cliOut>>


(***************************************************************************)
(* A pillar built from a dict, as the export request of cli_wrapper.py      *)
(* builds it and puts it in the session list, and the title of a pillar or  *)
(* a cluster assigned anew afterwards: the dataclasses are not frozen.      *)
(***************************************************************************)
\* the dicts a pillar is built from: no slug; a slug of its own; clusters
\* without and with a slug of their own
SlugPillarData ==
  { [ title |-> <<"S","E","O"," ","G","u","i","d","e">> ],
    [ title |-> <<"S","E","O"," ","G","u","i","d","e">>, url_slug |-> <<"M","y","_","S","l","u","g">> ],
    [ title |-> <<"A"," ","B","-","c"," "," ","D">>,
      clusters |-> << [ title |-> <<"O","n"," ","P","a","g","e">> ],
                      [ title |-> <<"l","i","n","k","s">>,
                        url_slug |-> <<"a","l","l","/","L","i","n","k","s">> ] >> ] }

SlugCalls == { [ pc |-> "call", op |-> "load", pillar_data |-> d ] : d \in SlugPillarData }

\* the title assigned later
NewTitle == <<"N","e","w"," ","N","a","m","e">>

\* pillar = _dict_to_pillar(pillar_data); generator.pillars.append(pillar)
LoadPillar ==
  /\ clusterOut.pc = "call"
  /\ pillars' = Append(pillars, dict_to_pillar(clusterOut.pillar_data))
  /\ clusterOut' = [ pc |-> "returned", op |-> "load", index |-> Len(pillars) + 1,
                     pillar_data |-> clusterOut.pillar_data ]
  /\ UNCHANGED <<intentOut, qualityOut, cliOut>>

\* an assignment to title that also computes the slug again
RetitlePillarResync ==
  /\ \E i \in DOMAIN pillars :
       /\ pillars[i].title # NewTitle
       /\ pillars' = [ pillars EXCEPT ![i].title = NewTitle, ![i].url_slug = Slugify(NewTitle) ]
       /\ clusterOut' = [ pc |-> "returned", op |-> "set_title", index |-> i ]
  /\ UNCHANGED <<intentOut, qualityOut, cliOut>>

\* pillar.title = new_title: __post_init__ does not run again
RetitlePillar ==
  /\ \E i \in DOMAIN pillars :
       /\ pillars[i].title # NewTitle
       /\ pillars' = [ pillars EXCEPT ![i].title = NewTitle ]
       /\ clusterOut' = [ pc |-> "returned", op |-> "set_title", index |-> i ]
  /\ UNCHANGED <<intentOut, qualityOut, cliOut>>

\* cluster.title = new_title
RetitleCluster ==
  /\ \E i \in DOMAIN pillars :
       \E k \in DOMAIN pillars[i].clusters :
         /\ pillars[i].clusters[k].title # NewTitle
         /\ pillars' = [ pillars EXCEPT ![i].clusters[k].title = NewTitle ]
         /\ clusterOut' = [ pc |-> "returned", op |-> "set_cluster_title", index |-> i ]
  /\ UNCHANGED <<intentOut, qualityOut, cliOut>>

\* the pillars whose diagram is exported on its own: up to MaxMermaidClusters
\* clusters, one more than the letters after 'A'
MaxMermaidClusters == 26

MermaidPillars ==
  { add_clusters_to_pillar(PillarPage(title, "seo", "", 3000, <<>>),
                           CoverageClusterData(n, short)) :
      title \in { <<"S","E","O">>, <<>> }, n \in 0..MaxMermaidClusters, short \in 0..2 }
(***************************************************************************)
(* content_quality_checker.py                                              *)
(*                                                                         *)
(* A score that the code holds as a float is held exactly, as              *)
(* whole + num / den with 0 <= num < den.  Python computes it in doubles:  *)
(* the two agree unless a comparison or a rounding falls exactly on a tie. *)
(***************************************************************************)
AsciiLetters == Range(UpperChars) \cup Range(LowerChars)

SentenceEnds == {".", "!", "?"}

\* the one character the pattern of a list marker names outside ASCII
Bullet == "<bullet>"

\* the positions at which a maximal run of characters outside delims starts
RunStarts(s, delims) ==
  { i \in DOMAIN s : s[i] \notin delims /\ (i = 1 \/ s[i-1] \in delims) }

\* the last position of the run of characters outside delims that holds i
RunEnd(s, delims, i) ==
  CHOOSE j \in i..Len(s) :
    /\ \A k \in i..j : s[k] \notin delims
    /\ (j = Len(s) \/ s[j+1] \in delims)

\* the elements of a set of integers in increasing order
RECURSIVE SortedSeq(_)
SortedSeq(S) ==
  IF S = {} THEN <<>>
  ELSE LET m == CHOOSE x \in S : \A y \in S : x <= y
       IN  <<m>> \o SortedSeq(S \ {m})

\* _split_sentences: re.split(r'[.!?]+', text), stripped, the empty ones dropped
split_sentences(text) ==
  LET starts == SortedSeq(RunStarts(text, SentenceEnds))
      parts == [ k \in DOMAIN starts |->
                   StrStrip(SubSeq(text, starts[k], RunEnd(text, SentenceEnds, starts[k]))) ]
  IN  SelectSeq(parts, LAMBDA p : p # <<>>)

\* the complement of the letters among the characters of a text
NonLetters(text) == Range(text) \ AsciiLetters

\* _split_words: re.findall(r'\b[a-zA-Z]+\b', text): the maximal runs of
\* letters that no other word character touches
split_words(text) ==
  LET delims == NonLetters(text)
      starts == SortedSeq({ i \in RunStarts(text, delims) :
                    /\ (i = 1 \/ ~IsWordChar(text[i-1]))
                    /\ LET j == RunEnd(text, delims, i)
                       IN  j = Len(text) \/ ~IsWordChar(text[j+1]) })
  IN  [ k \in DOMAIN starts |->
          SubSeq(text, starts[k], RunEnd(text, delims, starts[k])) ]

Vowels == {"a", "e", "i", "o", "u", "y"}

\* _count_syllables
count_syllables(word0) ==
  LET word == StrLower(word0)
      groups == Cardinality({ i \in DOMAIN word :
                  word[i] \in Vowels /\ (i = 1 \/ word[i-1] \notin Vowels) })
      count == IF word # <<>> /\ word[Len(word)] = "e" THEN groups - 1 ELSE groups
  IN  IF count = 0 THEN 1 ELSE count

\* the occurrences of a non-empty needle that do not overlap, found from the
\* left, from position `from` on
RECURSIVE CountFrom(_, _, _)
CountFrom(s, needle, from) ==
  LET hits == { i \in from..(Len(s) - Len(needle) + 1) : MatchesAt(s, needle, i) }
  IN  IF hits = {} THEN 0
      ELSE LET first == CHOOSE i \in hits : \A k \in hits : i <= k
           IN  1 + CountFrom(s, needle, first + Len(needle))

\* s.count(needle); the empty needle is found before and after every character
StrCount(s, needle) == IF needle = <<>> THEN Len(s) + 1 ELSE CountFrom(s, needle, 1)

\* len(content.split('\n\n'))
ParagraphCount(content) == StrCount(content, <<"\n", "\n">>) + 1

\* re.search(r'(\n-|\n\d+\.|\n<bullet>)', content)
HasListMarker(content) ==
  \E i \in DOMAIN content :
    /\ content[i] = "\n"
    /\ i + 1 <= Len(content)
    /\ \/ content[i+1] = "-"
       \/ content[i+1] = Bullet
       \/ /\ content[i+1] \in DigitChars
          /\ LET j == RunEnd(content, Range(content) \ DigitChars, i + 1)
             IN  j + 1 <= Len(content) /\ content[j+1] = "."

\* the number of '#' that start at position p
HashRun(content, p) ==
  IF p \in DOMAIN content /\ content[p] = "#"
    THEN RunEnd(content, Range(content) \ {"#"}, p) - p + 1
    ELSE 0

\* (^|\n)#{1,6}\s with the first '#' at position p
HeadingStartsAt(content, p) ==
  LET h == HashRun(content, p)
  IN  /\ (p = 1 \/ (p - 1 \in DOMAIN content /\ content[p-1] = "\n"))
      /\ h >= 1 /\ h <= 6
      /\ p + h <= Len(content)
      /\ IsSpaceChar(content[p + h])

\* re.search(r'(^|\n)#{1,6}\s', content)
HasHeading(content) == \E p \in DOMAIN content : HeadingStartsAt(content, p)

\* (^|\n)#{1,6}\s.+ with the first '#' at position p: the position of the
\* last character of the match, or 0 when there is no match
HeadingEnd(content, p) ==
  LET h == HashRun(content, p)
      body == p + h + 1
  IN  IF HeadingStartsAt(content, p) /\ body <= Len(content) /\ content[body] # "\n"
        THEN RunEnd(content, {"\n"}, body)
        ELSE 0

\* len(re.findall(r'(^|\n)#{1,6}\s.+', content)), scanning from `from`: a
\* match may start at position 1 or with a newline at `from` or later
RECURSIVE HeadingsFrom(_, _)
HeadingsFrom(content, from) ==
  LET hits == { p \in DOMAIN content :
                  /\ HeadingEnd(content, p) # 0
                  /\ IF p = 1 THEN from = 1 ELSE p - 1 >= from }
  IN  IF hits = {} THEN 0
      ELSE LET first == CHOOSE p \in hits : \A k \in hits : p <= k
           IN  1 + HeadingsFrom(content, HeadingEnd(content, first) + 1)

HeadingCount(content) == HeadingsFrom(content, 1)

\* \[.+?\]\(.+?\) with the '[' at position i: the position of the ')' that
\* ends the match, or 0
LinkEnd(content, i) ==
  LET line == IF content[i] = "\n" THEN i ELSE RunEnd(content, {"\n"}, i)
      closes == { j \in (i + 2)..line :
                    content[j] = "]" /\ j + 1 <= line /\ content[j+1] = "(" }
      ends(j) == { k \in (j + 3)..line : content[k] = ")" }
      usable == { j \in closes : ends(j) # {} }
  IN  IF content[i] # "[" \/ usable = {} THEN 0
      ELSE LET j == CHOOSE x \in usable : \A y \in usable : x <= y
           IN  CHOOSE k \in ends(j) : \A y \in ends(j) : k <= y

\* len(re.findall(r'\[.+?\]\(.+?\)', content)), scanning from `from`
RECURSIVE LinksFrom(_, _)
LinksFrom(content, from) ==
  LET hits == { i \in from..Len(content) : LinkEnd(content, i) # 0 }
  IN  IF hits = {} THEN 0
      ELSE LET first == CHOOSE i \in hits : \A k \in hits : i <= k
           IN  1 + LinksFrom(content, LinkEnd(content, first) + 1)

LinkCount(content) == LinksFrom(content, 1)

\* len(re.findall(r'https?://', content))
ExternalLinkCount(content) ==
  StrCount(content, <<"h","t","t","p",":","/","/">>)
  + StrCount(content, <<"h","t","t","p","s",":","/","/">>)

\* len(re.findall(r'\[?\d+\]?|source:|reference:', content_lower)): every
\* maximal run of digits is one match
CitationCount(content_lower) ==
  Cardinality(RunStarts(content_lower, Range(content_lower) \ DigitChars))
  + StrCount(content_lower, <<"s","o","u","r","c","e",":">>)
  + StrCount(content_lower, <<"r","e","f","e","r","e","n","c","e",":">>)

\* sum(1 for indicator in indicators if indicator in text)
IndicatorCount(indicators, text) ==
  Cardinality({ i \in DOMAIN indicators : Contains(text, indicators[i]) })

Min(a, b) == IF a <= b THEN a ELSE b

EXPERIENCE_INDICATORS ==
  << <<"i"," ","t","e","s","t","e","d">>,
     <<"i"," ","t","r","i","e","d">>,
     <<"i","n"," ","m","y"," ","e","x","p","e","r","i","e","n","c","e">>,
     <<"i"," ","f","o","u","n","d">>,
     <<"i"," ","u","s","e","d">>,
     <<"i"," ","n","o","t","i","c","e","d">>,
     <<"i"," ","d","i","s","c","o","v","e","r","e","d">>,
     <<"m","y"," ","r","e","s","u","l","t","s">>,
     <<"c","a","s","e"," ","s","t","u","d","y">>,
     <<"r","e","a","l","-","w","o","r","l","d"," ","e","x","a","m","p","l","e">>,
     <<"p","e","r","s","o","n","a","l"," ","e","x","p","e","r","i","e","n","c","e">> >>

EXPERTISE_INDICATORS ==
  << <<"c","e","r","t","i","f","i","e","d">>,
     <<"e","x","p","e","r","t">>,
     <<"p","r","o","f","e","s","s","i","o","n","a","l">>,
     <<"y","e","a","r","s"," ","o","f"," ","e","x","p","e","r","i","e","n","c","e">>,
     <<"s","p","e","c","i","a","l","i","s","t">>,
     <<"a","u","t","h","o","r","i","t","y">>,
     <<"r","e","s","e","a","r","c","h"," ","s","h","o","w","s">>,
     <<"s","t","u","d","i","e","s"," ","i","n","d","i","c","a","t","e">>,
     <<"a","c","c","o","r","d","i","n","g"," ","t","o">>,
     <<"d","a","t","a"," ","s","h","o","w","s">>,
     <<"s","t","a","t","i","s","t","i","c","s"," ","r","e","v","e","a","l">> >>

TRUST_INDICATORS ==
  << <<"s","o","u","r","c","e",":">>,
     <<"r","e","f","e","r","e","n","c","e",":">>,
     <<"c","i","t","a","t","i","o","n",":">>,
     <<"h","t","t","p","s",":","/","/">>,
     <<"p","u","b","l","i","s","h","e","d">>,
     <<"p","e","e","r","-","r","e","v","i","e","w","e","d">>,
     <<"v","e","r","i","f","i","e","d">>,
     <<"g","u","a","r","a","n","t","e","e","d">>,
     <<"p","r","i","v","a","c","y"," ","p","o","l","i","c","y">>,
     <<"t","e","r","m","s"," ","o","f"," ","s","e","r","v","i","c","e">>,
     <<"c","o","n","t","a","c","t"," ","u","s">> >>

EXAMPLE_INDICATORS ==
  << <<"e","x","a","m","p","l","e">>,
     <<"f","o","r"," ","i","n","s","t","a","n","c","e">>,
     <<"s","u","c","h"," ","a","s">>,
     <<"l","i","k","e">> >>

CTA_INDICATORS ==
  << <<"l","e","a","r","n"," ","m","o","r","e">>,
     <<"g","e","t"," ","s","t","a","r","t","e","d">>,
     <<"s","i","g","n"," ","u","p">>,
     <<"d","o","w","n","l","o","a","d">>,
     <<"c","o","n","t","a","c","t"," ","u","s">>,
     <<"t","r","y">> >>

authoritative_domains ==
  << <<"e","d","u">>,
     <<"g","o","v">>,
     <<"o","r","g">> >>

FAQ_PATTERNS ==
  << <<"f","a","q">>,
     <<"f","r","e","q","u","e","n","t","l","y"," ","a","s","k","e","d">>,
     <<"q","u","e","s","t","i","o","n">>,
     <<"q","&","a">> >>

CONCLUSION_PATTERNS ==
  << <<"c","o","n","c","l","u","s","i","o","n">>,
     <<"s","u","m","m","a","r","y">>,
     <<"i","n"," ","s","u","m","m","a","r","y">>,
     <<"t","o"," ","s","u","m","m","a","r","i","z","e">>,
     <<"k","e","y"," ","t","a","k","e","a","w","a","y","s">> >>

FAQ_ADVICE_PATTERNS ==
  << <<"f","a","q">>,
     <<"f","r","e","q","u","e","n","t","l","y"," ","a","s","k","e","d">> >>

CONCLUSION_ADVICE_PATTERNS ==
  << <<"c","o","n","c","l","u","s","i","o","n">>,
     <<"s","u","m","m","a","r","y">> >>

\* a score held exactly: whole + num / den, 0 <= num < den
Rat(n, d) == [whole |-> n \div d, num |-> n % d, den |-> d]

RatInt(n) == [whole |-> n, num |-> 0, den |-> 1]

\* r * k for a natural k
RatScale(r, k) ==
  [whole |-> r.whole * k + (r.num * k) \div r.den, num |-> (r.num * k) % r.den, den |-> r.den]

RatAddInt(r, n) == [r EXCEPT !.whole = @ + n]

\* r / k for a positive k
RatDivInt(r, k) ==
  [whole |-> r.whole \div k, num |-> (r.whole % k) * r.den + r.num, den |-> k * r.den]

\* r < n and r >= n for an integer n
RatLess(r, n) == r.whole < n

RatAtLeast(r, n) == r.whole >= n

\* round(r, 1), in tenths
Round1(r) == 10 * r.whole + RoundHalfEven(10 * r.num, r.den)

\* max(0, min(100, flesch)) for flesch = fn / fd, as a numerator over fd
FleschClamped(fn, fd) == IF fn < 0 THEN 0 ELSE IF fn > 100 * fd THEN 100 * fd ELSE fn

\* the numerator over 200 * S * W of the Flesch score of S sentences, W words:
\* 206.835 - 1.015 * W / S - 84.6 * syllables / W
FleschNumerator(S, W, syllables) == 41367 * S * W - 203 * W * W - 16920 * syllables * S

\* max(0, min(100, score)) for score = rn / rd
ClampedScore(rn, rd) ==
  IF rn < 0 THEN RatInt(0) ELSE IF rn > 100 * rd THEN RatInt(100) ELSE Rat(rn, rd)

\* the bonus for short paragraphs
ParagraphBonus(W, paragraphs) ==
  IF W < 100 * paragraphs THEN 10 ELSE IF W < 150 * paragraphs THEN 5 ELSE 0

\* the penalty for very long sentences
LongSentencePenalty(sentences) ==
  IF 10 * Cardinality({ k \in DOMAIN sentences : SplitCount(sentences[k]) > 25 })
       > 3 * Len(sentences)
    THEN 10 ELSE 0

\* what calculate_readability adds to and takes from flesch * 0.6
ReadabilityBonus(content, sentences, W) ==
  ParagraphBonus(W, ParagraphCount(content))
  + (IF HasListMarker(content) THEN 10 ELSE 0)
  + (IF HasHeading(content) THEN 10 ELSE 0)
  - LongSentencePenalty(sentences)

\* flesch * 0.6 + bonus, clamped, over the denominator 1000 * S * W
ReadabilityOf(S, W, syllables, bonus) ==
  IF S = 0 \/ W = 0 THEN RatInt(0)
  ELSE ClampedScore(3 * FleschClamped(FleschNumerator(S, W, syllables), 200 * S * W)
                      + bonus * 1000 * S * W,
                    1000 * S * W)

\* calculate_readability, from the sentences and the words of the content
ReadabilityFrom(content, sentences, words) ==
  ReadabilityOf(Len(sentences), Len(words),
                SumSeq([ k \in DOMAIN words |-> count_syllables(words[k]) ]),
                ReadabilityBonus(content, sentences, Len(words)))

\* calculate_readability
calculate_readability(content) ==
  ReadabilityFrom(content, split_sentences(content), split_words(content))

\* the sum calculate_eeat_score builds before it caps it, from content.lower()
EeatPointsOf(content_lower) ==
  Min(30, IndicatorCount(EXPERIENCE_INDICATORS, content_lower) * 5)
  + Min(30, IndicatorCount(EXPERTISE_INDICATORS, content_lower) * 5)
  + Min(40, IndicatorCount(TRUST_INDICATORS, content_lower) * 4)
  + Min(10, CitationCount(content_lower) * 2)
  + 5 * Cardinality({ k \in DOMAIN authoritative_domains :
                        Contains(content_lower, <<".">> \o authoritative_domains[k]) })

EeatPoints(content) == EeatPointsOf(StrLower(content))

\* calculate_eeat_score without the cap at 100
calculate_eeat_score_uncapped(content) == EeatPoints(content)

\* calculate_eeat_score
calculate_eeat_score(content) == Min(100, EeatPoints(content))

\* the points for the keyword density (keyword_count / word_count) * 100:
\* 15 within [0.5, 2.5], 5 below 0.5
DensityPoints(keyword_count, word_count) ==
  IF word_count = 0 THEN 0
  ELSE IF word_count <= 200 * keyword_count /\ 40 * keyword_count <= word_count THEN 15
  ELSE IF word_count > 200 * keyword_count THEN 5
  ELSE 0

SeoHeadingPoints(headings) == IF headings >= 3 THEN 10 ELSE IF headings >= 1 THEN 5 ELSE 0

LengthPoints(word_count) ==
  IF word_count >= 1500 THEN 15 ELSE IF word_count >= 1000 THEN 10
  ELSE IF word_count >= 500 THEN 5 ELSE 0

InternalLinkPoints(internal_links) ==
  IF internal_links >= 5 THEN 10 ELSE IF internal_links >= 3 THEN 7
  ELSE IF internal_links >= 1 THEN 4 ELSE 0

ExternalLinkPoints(external_links) ==
  IF external_links >= 3 THEN 10 ELSE IF external_links >= 1 THEN 5 ELSE 0

\* the rules of calculate_seo_score for a target keyword, lowercased
KeywordPoints(target_keyword, content, metadata, word_count) ==
  (IF Contains(StrLower(DictGet(metadata, "title", <<>>)), target_keyword) THEN 15 ELSE 0)
  + (IF Contains(StrLower(PySliceTo(content, 500)), target_keyword) THEN 10 ELSE 0)
  + (IF Contains(StrLower(DictGet(metadata, "meta_description", <<>>)), target_keyword)
       THEN 10 ELSE 0)
  + DensityPoints(StrCount(StrLower(content), target_keyword), word_count)
  + LengthPoints(word_count)

\* the rules of calculate_seo_score that follow the test of the target keyword
SeoPoints(content, metadata) ==
  KeywordPoints(StrLower(DictGet(metadata, "target_keyword", <<>>)), content, metadata,
                Len(split_words(content)))
  + SeoHeadingPoints(HeadingCount(content))
  + InternalLinkPoints(LinkCount(content))
  + ExternalLinkPoints(ExternalLinkCount(content))
  + (IF Contains(content, <<"!", "[">>) \/ Contains(content, <<"<", "i", "m", "g">>)
       THEN 5 ELSE 0)

\* calculate_seo_score without its early return
calculate_seo_score_no_early_return(content, metadata) ==
  Min(100, SeoPoints(content, metadata))

\* calculate_seo_score
calculate_seo_score(content, metadata) ==
  IF StrLower(DictGet(metadata, "target_keyword", <<>>)) = <<>> THEN 50
  ELSE Min(100, SeoPoints(content, metadata))

\* any(pattern in text for pattern in patterns)
AnyContained(patterns, text) == \E k \in DOMAIN patterns : Contains(text, patterns[k])

StructurePoints(headings) ==
  IF headings >= 5 THEN 20 ELSE IF headings >= 3 THEN 15 ELSE IF headings >= 1 THEN 10 ELSE 0

ExamplePoints(example_count) ==
  IF example_count >= 3 THEN 15 ELSE IF example_count >= 1 THEN 10 ELSE 0

\* the rules of calculate_completeness that read content.lower()
LoweredContentPoints(content_lower) ==
  ExamplePoints(IndicatorCount(EXAMPLE_INDICATORS, content_lower))
  + (IF AnyContained(FAQ_PATTERNS, content_lower) THEN 10 ELSE 0)
  + (IF AnyContained(CONCLUSION_PATTERNS, content_lower) THEN 10 ELSE 0)
  + (IF AnyContained(CTA_INDICATORS, content_lower) THEN 10 ELSE 0)

\* calculate_completeness (of ContentQualityChecker)
quality_completeness(content, metadata) ==
  Min(100,
    (IF Len(content) > 200 THEN 15 ELSE 0)
    + StructurePoints(HeadingCount(content))
    + LoweredContentPoints(StrLower(content))
    + (IF HasListMarker(content) THEN 10 ELSE 0)
    + (IF DictGet(metadata, "title", <<>>) # <<>>
          /\ DictGet(metadata, "meta_description", <<>>) # <<>> THEN 10 ELSE 0))

\* _get_grade
get_grade(score) ==
  IF RatAtLeast(score, 90) THEN "A"
  ELSE IF RatAtLeast(score, 80) THEN "B"
  ELSE IF RatAtLeast(score, 70) THEN "C"
  ELSE IF RatAtLeast(score, 60) THEN "D"
  ELSE "F"

Advice(text) == [text |-> text]

ExcellentAdvice == Advice("Content quality is excellent! Focus on promotion and link building.")

\* the advice of _generate_recommendations for a target keyword that is set
KeywordAdvice(target_keyword, content, word_count) ==
  (IF ~Contains(StrLower(PySliceTo(content, 500)), StrLower(target_keyword))
     THEN << [ text |-> "Include target keyword in the first paragraph",
               target_keyword |-> target_keyword ] >>
     ELSE <<>>)
  \o (IF word_count < 1500
        THEN << [ text |-> "Expand content to at least 1,500 words",
                  currently |-> word_count ] >>
        ELSE <<>>)

\* the advice of _generate_recommendations for an SEO score below 70
SeoAdviceFor(target_keyword, content) ==
  (IF target_keyword = <<>> THEN <<>>
   ELSE KeywordAdvice(target_keyword, content, Len(split_words(content))))
  \o (IF LinkCount(content) < 5
        THEN << Advice("Add more internal links to related content (5-10 recommended)") >>
        ELSE <<>>)

\* the advice of _generate_recommendations for a completeness score below 70
CompletenessAdviceFor(content_lower) ==
  (IF ~AnyContained(FAQ_ADVICE_PATTERNS, content_lower)
     THEN << Advice("Add an FAQ section to address common questions") >>
     ELSE <<>>)
  \o (IF ~AnyContained(CONCLUSION_ADVICE_PATTERNS, content_lower)
        THEN << Advice("Add a conclusion or summary section") >>
        ELSE <<>>)

\* the list _generate_recommendations has built when it reaches its last test
CollectedAdvice(readability, eeat, seo, completeness, content, metadata) ==
  (IF RatLess(readability, 70)
     THEN << Advice("Improve readability: Use shorter sentences and simpler words"),
             Advice("Add more headings and bullet points to break up text") >>
     ELSE <<>>)
  \o (IF eeat < 70
        THEN << Advice("Add personal experience and real-world examples"),
                Advice("Include citations and references to authoritative sources"),
                Advice("Demonstrate expertise with data, statistics, and research") >>
        ELSE <<>>)
  \o (IF seo < 70
        THEN SeoAdviceFor(DictGet(metadata, "target_keyword", <<>>), content)
        ELSE <<>>)
  \o (IF completeness < 70 THEN CompletenessAdviceFor(StrLower(content)) ELSE <<>>)

\* `if not recommendations`: the single message for an empty list
OrExcellent(recommendations) ==
  IF recommendations = <<>> THEN << ExcellentAdvice >> ELSE recommendations

\* _generate_recommendations
generate_recommendations(readability, eeat, seo, completeness, content, metadata) ==
  OrExcellent(CollectedAdvice(readability, eeat, seo, completeness, content, metadata))

\* QualityScore: the scores in tenths, as round(score, 1) leaves them
QualityScore(overall_score, readability_score, eeat_score, seo_score, completeness_score, grade, recommendations) ==
  [ overall_score |-> overall_score,
    readability_score |-> readability_score,
    eeat_score |-> eeat_score,
    seo_score |-> seo_score,
    completeness_score |-> completeness_score,
    grade |-> grade,
    recommendations |-> recommendations ]

\* the weighted average of check_content: 0.25, 0.30, 0.25 and 0.20 are
\* 5, 6, 5 and 4 twentieths
WeightedOverall(readability, eeat, seo, completeness) ==
  RatDivInt(RatAddInt(RatScale(readability, 5), 6 * eeat + 5 * seo + 4 * completeness), 20)

\* the local variables of check_content before it returns, from the four scores
LocalsOf(readability, eeat, seo, completeness) ==
  [ readability |-> readability, eeat |-> eeat, seo |-> seo,
    completeness |-> completeness,
    overall |-> WeightedOverall(readability, eeat, seo, completeness) ]

\* the local variables of check_content before it returns
CheckContentLocals(content, metadata) ==
  LocalsOf(calculate_readability(content), calculate_eeat_score(content),
           calculate_seo_score(content, metadata), quality_completeness(content, metadata))

\* check_content, from its local variables
QualityScoreOf(l, content, metadata) ==
  QualityScore(Round1(l.overall), Round1(l.readability), 10 * l.eeat, 10 * l.seo,
               10 * l.completeness, get_grade(l.overall),
               generate_recommendations(l.readability, l.eeat, l.seo, l.completeness,
                                        content, metadata))

\* check_content
check_content(content, metadata) ==
  QualityScoreOf(CheckContentLocals(content, metadata), content, metadata)

(***************************************************************************)
(* The checker is stateless: a run is one call of check_content.  Init      *)
(* draws the content and the metadata, CheckContent returns the score.      *)
(* A content is the blocks of a chosen subset of ContentBlocks, in order.   *)
(***************************************************************************)
ContentBlocks ==
  << \* a heading
     <<"#"," ","S","E","O"," ","g","u","i","d","e","\n">>,
     \* six experience indicators
     <<"I"," ","t","e","s","t","e","d"," ","i","t","."," ","I"," ","t","r",
       "i","e","d"," ","i","t","."," ","I"," ","f","o","u","n","d"," ","i",
       "t","."," ","I"," ","u","s","e","d"," ","i","t","."," ","I"," ","n",
       "o","t","i","c","e","d"," ","i","t","."," ","M","y"," ","r","e","s",
       "u","l","t","s",".","\n">>,
     \* six expertise indicators
     <<"C","e","r","t","i","f","i","e","d"," ","e","x","p","e","r","t",",",
       " ","p","r","o","f","e","s","s","i","o","n","a","l"," ","s","p","e",
       "c","i","a","l","i","s","t",","," ","a","n"," ","a","u","t","h","o",
       "r","i","t","y"," ","a","c","c","o","r","d","i","n","g"," ","t","o",
       " ","u","s",".","\n">>,
     \* eleven trust indicators, three citations and three authoritative domains
     <<"S","o","u","r","c","e",":"," ","h","t","t","p","s",":","/","/","a",
       ".","o","r","g"," ","v","e","r","i","f","i","e","d"," ","a","n","d",
       " ","p","u","b","l","i","s","h","e","d"," ","[","1","]","."," ","R",
       "e","f","e","r","e","n","c","e",":"," ","b",".","e","d","u",","," ",
       "c",".","g","o","v","."," ","C","i","t","a","t","i","o","n",":"," ",
       "p","e","e","r","-","r","e","v","i","e","w","e","d",","," ","g","u",
       "a","r","a","n","t","e","e","d","."," ","P","r","i","v","a","c","y",
       " ","p","o","l","i","c","y",","," ","t","e","r","m","s"," ","o","f",
       " ","s","e","r","v","i","c","e",","," ","c","o","n","t","a","c","t",
       " ","u","s",".","\n">>,
     \* a list with an FAQ and a summary entry
     <<"\n","-"," ","f","a","q","\n","-"," ","s","u","m","m","a","r","y",
       "\n">>,
     \* five internal links
     <<"[","a","]","(","b",")"," ","[","c","]","(","d",")"," ","[","e","]",
       "(","f",")"," ","[","g","]","(","h",")"," ","[","i","]","(","j",")",
       "\n">>,
     \* a plain sentence with the keyword
     <<"S","h","o","r","t"," ","p","a","g","e","s"," ","r","a","n","k"," ",
       "w","e","l","l"," ","w","i","t","h"," ","s","e","o",".","\n">>,
     \* an example and a call to action
     <<"F","o","r"," ","e","x","a","m","p","l","e",","," ","t","r","y"," ",
       "i","t","!","\n">> >>

\* the blocks of a set of block numbers, joined in the order of the catalogue
ContentOf(chosen) ==
  LET order == SortedSeq(chosen)
  IN  Concat([ k \in DOMAIN order |-> ContentBlocks[order[k]] ])

\* a text with a number that is not in brackets and none of the indicators
PlainNumberContent == <<"T","o","p"," ","1","0"," ","t","i","p","s",".","\n">>

Contents ==
  { ContentOf(chosen) : chosen \in SUBSET DOMAIN ContentBlocks } \cup { PlainNumberContent }

EmptyDict == <<>>

\* metadata: none, an empty keyword, all three fields, no keyword, a keyword only
Metadatas ==
  { EmptyDict,
    [ target_keyword |-> <<>> ],
    [ title |-> <<"S","E","O"," ","G","u","i","d","e">>,
      meta_description |-> <<"L","e","a","r","n"," ","s","e","o">>,
      target_keyword |-> <<"S","E","O">> ],
    [ title |-> <<"G","u","i","d","e">>, meta_description |-> <<"L","e","a","r","n">> ],
    [ target_keyword |-> <<"s","e","o">> ] }

QualityIdle == [ pc |-> "idle" ]

QualityCalls ==
  { [ pc |-> "call", content |-> c, metadata |-> m ] : c \in Contents, m \in Metadatas }

\* the state a call of check_content leaves: its local variables and its result
CheckedCall(call, locals) ==
  [ call EXCEPT !.pc = "done" ]
    @@ ( "locals" :> locals )
    @@ ( "ret" :> QualityScoreOf(locals, call.content, call.metadata) )

CheckContent ==
  /\ qualityOut.pc = "call"
  /\ qualityOut' = CheckedCall(qualityOut,
                               CheckContentLocals(qualityOut.content, qualityOut.metadata))
  /\ UNCHANGED <<intentOut, pillars, clusterOut, cliOut>>

(***************************************************************************)
(* cli_wrapper.py                                                          *)
(*                                                                         *)
(* One run of the wrapper reads one request from stdin, prints one JSON     *)
(* document and exits.  A handler's outcome is the value it returns, with   *)
(* the JSON type json.dumps gives it, or the exception that leaves it.      *)
(***************************************************************************)
Returned(type, value) == [ raised |-> "none", type |-> type, value |-> value ]

\* an exception and its str()
Raised(exception, text) == [ raised |-> exception, text |-> text ]

\* what dict.get returns for a key that is absent and has no default; it
\* equals no module name and no action name
PyNone == "None"

UnknownAction == Returned("object", [ error |-> <<"Unknown action">> ])

\* the outcome of a call of get_intent_distribution
DistributionOutcome(distribution) ==
  IF distribution.raised = "none"
    THEN Returned("object", distribution)
    ELSE Raised(distribution.raised, <<"division by zero">>)

\* the branches of handle_intent_analysis
IntentActionOutcome(action, data) ==
  IF action = "analyze_batch"
    THEN Returned("array", analyze_batch(DictGet(data, "queries", <<>>)))
  ELSE IF action = "get_distribution"
    THEN DistributionOutcome(get_intent_distribution(DictGet(data, "queries", <<>>)))
  ELSE IF action = "analyze_single"
    THEN Returned("object", analyze_query(DictGet(data, "query", <<>>)))
  ELSE UnknownAction

\* handle_intent_analysis
handle_intent_analysis(data) == IntentActionOutcome(DictGet(data, "action", PyNone), data)

\* the branches of handle_topic_cluster that read data['pillar']
PillarActionOutcome(action, pillar, data) ==
  IF action = "analyze_coverage"
    THEN Returned("object", analyze_cluster_coverage(pillar))
  ELSE IF action = "generate_linking_strategy"
    THEN Returned("object", generate_internal_linking_strategy(pillar))
  ELSE IF action = "export"
    THEN Returned("string", export_cluster_map(pillar, DictGet(data, "format", "json")).text)
  ELSE UnknownAction

\* the branches of handle_topic_cluster
ClusterActionOutcome(action, data) ==
  IF action = "generate_ideas"
    THEN Returned("array",
                  generate_cluster_ideas(DictGet(data, "pillar_topic", ""),
                                         DictGet(data, "template_type", "guide"),
                                         DictGet(data, "count", 10)))
    ELSE PillarActionOutcome(action, dict_to_pillar(DictGet(data, "pillar", <<>>)), data)

\* handle_topic_cluster: the generator lives and dies with the call
handle_topic_cluster(data) == ClusterActionOutcome(DictGet(data, "action", PyNone), data)

\* the dict handle_quality_check makes of a QualityScore
QualityScoreDict(score) ==
  [ overall_score |-> score.overall_score,
    readability_score |-> score.readability_score,
    eeat_score |-> score.eeat_score,
    seo_score |-> score.seo_score,
    completeness_score |-> score.completeness_score,
    grade |-> score.grade,
    recommendations |-> score.recommendations ]

\* handle_quality_check
handle_quality_check(data) ==
  IF DictGet(data, "action", PyNone) = "check_quality"
    THEN Returned("object",
                  QualityScoreDict(check_content(DictGet(data, "content", <<>>),
                                                 DictGet(data, "metadata", <<>>))))
    ELSE UnknownAction

\* type(value).__name__ of what json.loads returns for a document that is
\* no object
PyTypeName(kind) ==
  IF kind = "null" THEN "NoneType"
  ELSE IF kind = "array" THEN "list"
  ELSE IF kind = "string" THEN "str"
  ELSE kind

\* the dispatch of main on data['module']
Dispatch(module, data) ==
  IF module = "intent_analyzer" THEN handle_intent_analysis(data)
  ELSE IF module = "topic_cluster" THEN handle_topic_cluster(data)
  ELSE IF module = "quality_checker" THEN handle_quality_check(data)
  ELSE Returned("object", [ error |-> <<"Unknown module">> ])

\* the try block of main up to the result: json.loads, then the dispatch
MainOutcome(stdin) ==
  IF stdin.kind = "malformed"
    THEN Raised("JSONDecodeError", <<"Expecting value: line 1 column 1 (char 0)">>)
  ELSE IF stdin.kind # "object"
    THEN Raised("AttributeError", <<PyTypeName(stdin.kind), "object has no attribute 'get'">>)
  ELSE Dispatch(DictGet(stdin.data, "module", ""), stdin.data)

\* what main prints and the status it exits with, given the outcome of its
\* try block.  sys.exit(0) raises SystemExit, which `except Exception` does
\* not catch.
PrintAndExit(outcome) ==
  IF outcome.raised = "none"
    THEN [ stdout |-> [ type |-> outcome.type, value |-> outcome.value ], status |-> 0 ]
    ELSE [ stdout |-> [ type |-> "object", value |-> [ error |-> outcome.text ] ],
           status |-> 1 ]

\* main
main(stdin) == PrintAndExit(MainOutcome(stdin))

(***************************************************************************)
(* A run of the wrapper: Init draws what stands on stdin, Main runs main(). *)
(***************************************************************************)
ModuleNames == { "intent_analyzer", "topic_cluster", "quality_checker", "seo_audit" }

ActionNames ==
  { "analyze_batch", "get_distribution", "analyze_single",
    "generate_ideas", "analyze_coverage", "generate_linking_strategy", "export",
    "check_quality", "delete" }

\* what a request holds besides module and action: nothing, every key a handler reads, or empty lists
RequestPayloads ==
  { EmptyDict,
    [ queries |-> << <<"b","u","y"," ">>, <<"x"," ">> >>,
      query |-> <<"h","o","w"," ">>,
      pillar_topic |-> "coffee",
      template_type |-> "product",
      count |-> 2,
      pillar |-> [ title |-> <<"S","E","O"," ","G","u","i","d","e">>,
                   clusters |-> << [ title |-> <<"O","n"," ","P","a","g","e">>,
                                     word_count |-> 800, difficulty |-> "high" ],
                                   [ title |-> <<"l","i","n","k","s">> ] >> ],
      format |-> "markdown",
      content |-> ContentBlocks[1] \o ContentBlocks[7] \o ContentBlocks[8],
      metadata |-> [ target_keyword |-> <<"s","e","o">> ] ],
    [ queries |-> <<>>, pillar |-> EmptyDict, format |-> "yaml", content |-> <<>> ] }

RequestObjects ==
  { m @@ a @@ p :
      m \in { EmptyDict } \cup { [ module |-> x ] : x \in ModuleNames },
      a \in { EmptyDict } \cup { [ action |-> x ] : x \in ActionNames },
      p \in RequestPayloads }

\* stdin: text that is no JSON, a JSON document that is no object, a request
Stdins ==
  { [ kind |-> k ] : k \in { "malformed", "null", "array", "string" } }
  \cup { [ kind |-> "object", data |-> d ] : d \in RequestObjects }

CliIdle == [ pc |-> "idle" ]

\* the state a run of main leaves
ExitedRun(stdin, run) ==
  [ pc |-> "exited", stdin |-> stdin, stdout |-> run.stdout, status |-> run.status ]

Main ==
  /\ cliOut.pc = "start"
  /\ cliOut' = ExitedRun(cliOut.stdin, main(cliOut.stdin))
  /\ UNCHANGED <<intentOut, pillars, clusterOut, qualityOut>>

(***************************************************************************)
(* Properties of the intent analyzer (invariants of SpecIntent).           *)
(***************************************************************************)
AnalyzedQuery == intentOut.pc = "done" /\ intentOut.op = "analyze_query"

\* the query as analyze_query reads it: lowercased, then trimmed
Normalized(query) == StrStrip(StrLower(query))

\* the number of modifiers of an intent that occur as a whole word
ModifierCount(intent, q) ==
  Cardinality({ i \in DOMAIN ModifiersOf(intent) :
                  PatternSearch(CompilePattern(ModifiersOf(intent)[i]), q) })

\* no modifier of any intent occurs as a whole word
NoModifierMatches(q) ==
  \A intent \in Intents : \A i \in DOMAIN ModifiersOf(intent) :
    ~PatternSearch(CompilePattern(ModifiersOf(intent)[i]), q)

StartsInterrogative(q) ==
  \E w \in { <<"h","o","w"," ">>, <<"w","h","a","t"," ">>, <<"w","h","y"," ">>,
             <<"w","h","e","n"," ">>, <<"w","h","e","r","e"," ">> } : StartsWith(q, w)

ShortAndPlain(q) ==
  /\ SplitCount(q) <= 2
  /\ \A w \in { <<"?">>, <<"h","o","w">>, <<"w","h","a","t">> } : ~Contains(q, w)

\* C1: a query whose four modifier counts are all zero is decided by the
\* fallback chain, in order: interrogative start -> informational 0.8; at most
\* two words and none of '?', 'how', 'what' -> navigational 0.6; at least three
\* words -> informational 0.5; otherwise informational 0.4.
C1_FallbackChain ==
  (AnalyzedQuery /\ NoModifierMatches(Normalized(intentOut.query))) =>
    LET q == Normalized(intentOut.query)
        r == intentOut.ret
        expected ==
          IF StartsInterrogative(q) THEN <<INFORMATIONAL, 80>>
          ELSE IF ShortAndPlain(q) THEN <<NAVIGATIONAL, 60>>
          ELSE IF SplitCount(q) >= 3 THEN <<INFORMATIONAL, 50>>
          ELSE <<INFORMATIONAL, 40>>
    IN  <<r.primary_intent, r.confidence>> = expected

\* a query without modifier matches that only the last rule decides: at most
\* two words, but 'how' inside a longer word
C1_Witness ==
  /\ AnalyzedQuery
  /\ NoModifierMatches(Normalized(intentOut.query))
  /\ SplitCount(Normalized(intentOut.query)) <= 2
  /\ Contains(Normalized(intentOut.query), <<"h","o","w">>)
  /\ intentOut.ret.primary_intent = INFORMATIONAL
  /\ intentOut.ret.confidence = 40

\* the position of an intent in the fixed order
IntentIndex(intent) == CHOOSE i \in DOMAIN IntentOrder : IntentOrder[i] = intent

\* C2: with at least one nonzero count, the primary intent has the maximum
\* count, no intent earlier in the fixed order has that count, and the
\* confidence is max_count / sum_of_counts rounded to 2 decimals.
C2_MaxCountFirstInOrder ==
  (AnalyzedQuery /\ ~NoModifierMatches(Normalized(intentOut.query))) =>
    LET q == Normalized(intentOut.query)
        r == intentOut.ret
        p == r.primary_intent
        counts == << ModifierCount(IntentOrder[1], q), ModifierCount(IntentOrder[2], q),
                     ModifierCount(IntentOrder[3], q), ModifierCount(IntentOrder[4], q) >>
        total == SumSeq(counts)
        top == counts[IntentIndex(p)]
        diff == r.confidence * total - 100 * top
    IN  /\ p \in Intents
        /\ \A i \in DOMAIN IntentOrder : counts[i] <= top
        /\ \A i \in DOMAIN IntentOrder : i < IntentIndex(p) => counts[i] < top
        /\ 2 * diff <= total /\ -2 * diff <= total

\* two intents share the maximum count and the earlier one is returned, with
\* a confidence that is not 1
C2_Witness ==
  /\ AnalyzedQuery
  /\ ModifierCount(INFORMATIONAL, Normalized(intentOut.query)) = 1
  /\ ModifierCount(COMMERCIAL, Normalized(intentOut.query)) = 1
  /\ ModifierCount(TRANSACTIONAL, Normalized(intentOut.query)) = 1
  /\ intentOut.ret.primary_intent = INFORMATIONAL
  /\ intentOut.ret.confidence = 33

\* C3: get_intent_distribution never raises: for every sequence of queries,
\* the empty one included, it returns total_queries, counts and percentages.
C3_DistributionNeverRaises ==
  (intentOut.pc = "done" /\ intentOut.op = "get_intent_distribution") =>
    /\ intentOut.ret.raised = "none"
    /\ intentOut.ret.total_queries = Len(intentOut.queries)
    /\ DOMAIN intentOut.ret.distribution = Intents
    /\ DOMAIN intentOut.ret.percentages = Intents


AnalyzedBatch == intentOut.pc = "done" /\ intentOut.op = "analyze_batch"

\* C13: analyze_batch returns a sequence as long as the input whose i-th
\* element is the result of analyze_query on the i-th query, with that query
\* in its 'query' field, in input order.
C13_BatchInInputOrder ==
  AnalyzedBatch =>
    /\ Len(intentOut.ret) = Len(intentOut.queries)
    /\ \A i \in DOMAIN intentOut.queries :
         /\ intentOut.ret[i] = analyze_query(intentOut.queries[i])
         /\ intentOut.ret[i].query = intentOut.queries[i]

\* a batch of two queries of different intents, answered in input order
C13_Witness ==
  /\ AnalyzedBatch
  /\ Len(intentOut.queries) = 2
  /\ intentOut.queries[1] # intentOut.queries[2]
  /\ intentOut.ret[1].query = intentOut.queries[1]
  /\ intentOut.ret[2].query = intentOut.queries[2]
  /\ intentOut.ret[1].primary_intent = TRANSACTIONAL
  /\ intentOut.ret[2].primary_intent = INFORMATIONAL

Distributed ==
  /\ intentOut.pc = "done"
  /\ intentOut.op = "get_intent_distribution"
  /\ Len(intentOut.queries) > 0

\* the number of queries of the call whose primary intent is the given one
QueriesWithPrimary(intent) ==
  Cardinality({ i \in DOMAIN intentOut.queries :
                  analyze_query(intentOut.queries[i]).primary_intent = intent })

\* C14: for a non-empty sequence of queries the per-intent counts of
\* get_intent_distribution count each query once under its primary intent and
\* sum to total_queries, and dominant_intent has the maximum count, the first
\* such intent in the order informational, navigational,
\* commercial_investigation, transactional.
C14_CountsSumAndDominant ==
  Distributed =>
    LET r == intentOut.ret
        d == r.distribution
        dominant == r.dominant_intent
    IN  /\ r.raised = "none"
        /\ r.total_queries = Len(intentOut.queries)
        /\ \A intent \in Intents : d[intent] = QueriesWithPrimary(intent)
        /\ d[INFORMATIONAL] + d[NAVIGATIONAL] + d[COMMERCIAL] + d[TRANSACTIONAL]
             = r.total_queries
        /\ dominant \in Intents
        /\ \A intent \in Intents : d[intent] <= d[dominant]
        /\ \A i \in DOMAIN IntentOrder :
             i < IntentIndex(dominant) => d[IntentOrder[i]] < d[dominant]

\* two queries of different intents tie at one each, and the earlier intent
\* of the order is the dominant one, though not informational
C14_Witness ==
  /\ Distributed
  /\ intentOut.ret.distribution[INFORMATIONAL] = 0
  /\ intentOut.ret.distribution[COMMERCIAL] = 1
  /\ intentOut.ret.distribution[TRANSACTIONAL] = 1
  /\ intentOut.ret.dominant_intent = COMMERCIAL

\* the sum and the greatest of the four counts analyze_query returned
ReturnedCountSum ==
  intentOut.ret.intent_scores[INFORMATIONAL] + intentOut.ret.intent_scores[NAVIGATIONAL]
  + intentOut.ret.intent_scores[COMMERCIAL] + intentOut.ret.intent_scores[TRANSACTIONAL]

ReturnedCountMax ==
  CHOOSE n \in { intentOut.ret.intent_scores[intent] : intent \in Intents } :
    \A intent \in Intents : intentOut.ret.intent_scores[intent] <= n

\* C15: the confidence analyze_query returns lies in [0,1], and when it is
\* computed from the counts (some count is not zero) the sum of the four
\* counts is not zero and at least the maximum count.
C15_ConfidenceWithinUnitInterval ==
  AnalyzedQuery =>
    /\ intentOut.ret.confidence \in 0..100
    /\ ReturnedCountMax > 0 =>
         /\ ReturnedCountSum > 0
         /\ ReturnedCountSum >= ReturnedCountMax

\* a confidence computed from counts whose sum is greater than their maximum
C15_Witness ==
  /\ AnalyzedQuery
  /\ ReturnedCountMax = 2
  /\ ReturnedCountSum = 3
  /\ intentOut.ret.confidence = 67

\* C16: matched_modifiers of analyze_query is reported for the primary intent
\* only: when a modifier matched it has intent_scores[primary_intent] entries,
\* each a modifier of the primary intent's list that occurs as a whole word,
\* case-insensitively, in the query; when none matched it is empty.
C16_MatchedModifiersOfPrimary ==
  AnalyzedQuery =>
    LET r == intentOut.ret
        q == Normalized(intentOut.query)
    IN  IF NoModifierMatches(q)
          THEN r.matched_modifiers = <<>>
          ELSE /\ Len(r.matched_modifiers) = r.intent_scores[r.primary_intent]
               /\ \A k \in DOMAIN r.matched_modifiers :
                    \E i \in DOMAIN ModifiersOf(r.primary_intent) :
                      /\ r.matched_modifiers[k] = ModifiersOf(r.primary_intent)[i]
                      /\ PatternSearch(CompilePattern(ModifiersOf(r.primary_intent)[i]), q)

\* C23: the first fallback rule never decides: a query whose lowercased,
\* trimmed form starts with 'how ', 'what ', 'why ', 'when ' or 'where ' has
\* an informational count of at least 1, so analyze_query decides it by the
\* counts, and a query decided by the fallback rules never gets the
\* (informational, 0.8) of the first rule.
C23_FirstFallbackRuleUnreachable ==
  AnalyzedQuery =>
    /\ StartsInterrogative(Normalized(intentOut.query)) =>
         /\ ModifierCount(INFORMATIONAL, Normalized(intentOut.query)) >= 1
         /\ intentOut.ret.intent_scores[INFORMATIONAL] >= 1
         /\ ~NoModifierMatches(Normalized(intentOut.query))
    /\ NoModifierMatches(Normalized(intentOut.query)) =>
         <<intentOut.ret.primary_intent, intentOut.ret.confidence>> # <<INFORMATIONAL, 80>>

\* a query that starts with 'how ' and is decided by its counts: one
\* informational and one transactional modifier, confidence 0.5 and not 0.8
C23_Witness ==
  /\ AnalyzedQuery
  /\ StartsWith(Normalized(intentOut.query), <<"h","o","w"," ">>)
  /\ intentOut.ret.intent_scores[INFORMATIONAL] = 1
  /\ intentOut.ret.intent_scores[TRANSACTIONAL] = 1
  /\ intentOut.ret.primary_intent = INFORMATIONAL
  /\ intentOut.ret.confidence = 50
(***************************************************************************)
(* Properties of the cluster planner (invariants of SpecCluster).          *)
(***************************************************************************)
\* the edge from the cluster at position i to the cluster at position j
WindowEdge(pillar, i, j) ==
  [ from |-> pillar.clusters[i].url_slug,
    to |-> pillar.clusters[j].url_slug,
    anchor_text |-> pillar.clusters[j].target_keyword,
    context |-> <<"Related topic link">> ]

\* c[i]->c[i+1] and c[i]->c[i+2] for every position i, in order of i
RECURSIVE ForwardTwoWindow(_, _)
ForwardTwoWindow(pillar, i) ==
  IF i > Len(pillar.clusters) THEN <<>>
  ELSE (IF i + 1 <= Len(pillar.clusters) THEN <<WindowEdge(pillar, i, i + 1)>> ELSE <<>>)
       \o (IF i + 2 <= Len(pillar.clusters) THEN <<WindowEdge(pillar, i, i + 2)>> ELSE <<>>)
       \o ForwardTwoWindow(pillar, i + 1)

\* C4: for every pillar, also one that holds clusters equal by value, the
\* cluster_to_cluster list is exactly the edges c[i]->c[i+1] and c[i]->c[i+2]
\* by list position, in order of i.
C4_ForwardTwoWindowByPosition ==
  (clusterOut.pc = "returned" /\ clusterOut.op = "generate_internal_linking_strategy") =>
    clusterOut.ret.cluster_to_cluster = ForwardTwoWindow(pillars[clusterOut.index], 1)

\* C5: the pillar rebuilt from the parsed JSON export equals the in-memory
\* pillar in title, target_keyword, description, word_count and url_slug, and
\* its cluster sequence equals the in-memory one, field by field, in order.
C5_JsonRoundTrip ==
  (clusterOut.pc = "returned" /\ clusterOut.op = "rebuild") =>
    LET original == pillars[clusterOut.index]
        rebuilt == clusterOut.ret
    IN  /\ rebuilt.title = original.title
        /\ rebuilt.target_keyword = original.target_keyword
        /\ rebuilt.description = original.description
        /\ rebuilt.word_count = original.word_count
        /\ rebuilt.url_slug = original.url_slug
        /\ rebuilt.clusters = original.clusters


\* the template list of a type: the guide list when the type has none
SelectedTemplates(template_type) ==
  IF template_type \in { "guide", "product", "service" }
    THEN SUBTOPIC_TEMPLATES[template_type]
    ELSE SUBTOPIC_TEMPLATES["guide"]

\* C12: generate_cluster_ideas returns the first count templates of the list
\* of the type (the guide list for an unknown type), in the order of the list,
\* with '{topic}' replaced by the topic: min(count, 10) entries for count >= 0,
\* and never more entries than count.
C12_FirstCountTemplates ==
  (clusterOut.pc = "returned" /\ clusterOut.op = "generate_cluster_ideas") =>
    /\ clusterOut.count >= 0 => Len(clusterOut.ret) = Min(clusterOut.count, 10)
    /\ Len(clusterOut.ret) <= clusterOut.count
    /\ \A i \in DOMAIN clusterOut.ret :
         clusterOut.ret[i] = SelectedTemplates(clusterOut.template_type)[i][1]
                               \o clusterOut.pillar_topic
                               \o SelectedTemplates(clusterOut.template_type)[i][2]

AnalyzedCoverage ==
  clusterOut.pc = "returned" /\ clusterOut.op = "analyze_cluster_coverage"

\* the pillar the last call was given
AnalyzedPillar == pillars[clusterOut.index]

\* C17: analyze_cluster_coverage of a pillar without clusters does not divide
\* by zero: it returns total_clusters 0, average_cluster_length 0, the
\* pillar's word_count as total_word_count, an empty difficulty histogram and
\* a completeness score of the pillar word-count component alone, at most 30.
C17_CoverageOfEmptyPillar ==
  (AnalyzedCoverage /\ AnalyzedPillar.clusters = <<>>) =>
    /\ "raised" \notin DOMAIN clusterOut.ret
    /\ clusterOut.ret.total_clusters = 0
    /\ clusterOut.ret.average_cluster_length = 0
    /\ clusterOut.ret.total_word_count = AnalyzedPillar.word_count
    /\ clusterOut.ret.difficulty_distribution = <<>>
    /\ clusterOut.ret.completeness_score <= 300
    /\ clusterOut.ret.completeness_score =
         IF AnalyzedPillar.word_count >= 3000 THEN 300
         ELSE RoundHalfEven(AnalyzedPillar.word_count, 10)

\* a pillar of 1200 words without clusters is scored 12.0
C17_Witness ==
  /\ AnalyzedCoverage
  /\ AnalyzedPillar.clusters = <<>>
  /\ AnalyzedPillar.word_count = 1200
  /\ clusterOut.ret.average_cluster_length = 0
  /\ clusterOut.ret.completeness_score = 120

\* the number of clusters of the analysed pillar with at least 1500 words
AdequateClusters ==
  Cardinality({ i \in DOMAIN AnalyzedPillar.clusters :
                  AnalyzedPillar.clusters[i].word_count >= 1500 })

\* 3000 * n times the sum min(40, n/10 * 40) + min(30, word_count/3000 * 30)
\* + 30 * adequate/n for n clusters (n = 1 and no third term for no clusters)
ExpectedCompletenessTimes3000n(word_count, count, n, adequate) ==
  (IF count >= 10 THEN 40 * 3000 * n ELSE 4 * count * 3000 * n)
  + (IF word_count >= 3000 THEN 30 * 3000 * n ELSE 30 * word_count * n)
  + (IF count = 0 THEN 0 ELSE 30 * adequate * 3000)

\* a score in tenths is the value num / (3000 * n) rounded to 1 decimal: they
\* differ by 0.05 at most
RoundedToOneDecimal(tenths, num, n) ==
  /\ 2 * (tenths * 300 * n - num) <= 300 * n
  /\ 2 * (num - tenths * 300 * n) <= 300 * n

\* C18: for a pillar and clusters of positive word counts the completeness
\* score lies in [0,100] and is, rounded to 1 decimal,
\* min(40, clusters/10 * 40) + min(30, word_count/3000 * 30)
\* + 30 * (the fraction of clusters of at least 1500 words, 0 without clusters).
C18_CompletenessFormula ==
  ( /\ AnalyzedCoverage
    /\ AnalyzedPillar.word_count > 0
    /\ \A i \in DOMAIN AnalyzedPillar.clusters : AnalyzedPillar.clusters[i].word_count > 0 ) =>
    /\ clusterOut.ret.completeness_score \in 0..1000
    /\ RoundedToOneDecimal(
         clusterOut.ret.completeness_score,
         ExpectedCompletenessTimes3000n(
           AnalyzedPillar.word_count, Len(AnalyzedPillar.clusters),
           IF AnalyzedPillar.clusters = <<>> THEN 1 ELSE Len(AnalyzedPillar.clusters),
           AdequateClusters),
         IF AnalyzedPillar.clusters = <<>> THEN 1 ELSE Len(AnalyzedPillar.clusters))

\* eleven clusters, all long enough, under a pillar of 3000 words: the cluster
\* term is capped at 40 and the score is 100
C18_Witness ==
  /\ AnalyzedCoverage
  /\ Len(AnalyzedPillar.clusters) = 11
  /\ AdequateClusters = 11
  /\ AnalyzedPillar.word_count = 3000
  /\ clusterOut.ret.completeness_score = 1000

\* the number of clusters of the analysed pillar under 1500 words
ShortClusters ==
  Cardinality({ i \in DOMAIN AnalyzedPillar.clusters :
                  AnalyzedPillar.clusters[i].word_count < 1500 })

AddMoreAdvice(n) == <<"Add ", n, " more cluster pieces (minimum 10 recommended)">>

IncreaseAdvice(n) == <<"Increase pillar word count by ", n, " words">>

ExpandAdvice(k) == <<"Expand ", k, " cluster pieces to at least 1,500 words">>

CoverageSuccess ==
  <<"Cluster coverage is excellent! Focus on content quality and promotion.">>

\* the position of a message in the returned recommendations, 0 when absent
AdvicePosition(message) ==
  IF \E i \in DOMAIN clusterOut.ret.recommendations : clusterOut.ret.recommendations[i] = message
    THEN CHOOSE i \in DOMAIN clusterOut.ret.recommendations :
           clusterOut.ret.recommendations[i] = message
    ELSE 0

\* the returned recommendations that start with the given words
AdviceStarting(words) ==
  { i \in DOMAIN clusterOut.ret.recommendations : clusterOut.ret.recommendations[i][1] = words }

\* C19: the coverage recommendations hold, in this order, 'add N more clusters'
\* with N = 10 - cluster_count iff cluster_count < 10, 'increase by N words'
\* with N = 3000 - word_count iff word_count < 3000, and 'expand K clusters'
\* with K the number of clusters under 1500 words iff K > 0; the list is the
\* single success message iff none of the three holds, and it is never empty.
C19_CoverageRecommendations ==
  AnalyzedCoverage =>
    LET recs == clusterOut.ret.recommendations
        count == Len(AnalyzedPillar.clusters)
        words == AnalyzedPillar.word_count
        add == AdvicePosition(AddMoreAdvice(10 - count))
        increase == AdvicePosition(IncreaseAdvice(3000 - words))
        expand == AdvicePosition(ExpandAdvice(ShortClusters))
        none == count >= 10 /\ words >= 3000 /\ ShortClusters = 0
    IN  /\ recs # <<>>
        /\ AdviceStarting("Add ") = (IF count < 10 THEN {add} ELSE {})
        /\ AdviceStarting("Increase pillar word count by ")
             = (IF words < 3000 THEN {increase} ELSE {})
        /\ AdviceStarting("Expand ") = (IF ShortClusters > 0 THEN {expand} ELSE {})
        /\ count < 10 => add > 0
        /\ words < 3000 => increase > 0
        /\ ShortClusters > 0 => expand > 0
        /\ (count < 10 /\ words < 3000) => add < increase
        /\ (count < 10 /\ ShortClusters > 0) => add < expand
        /\ (words < 3000 /\ ShortClusters > 0) => increase < expand
        /\ (recs = <<CoverageSuccess>>) <=> none
        /\ ~none => Len(recs) = Cardinality(AdviceStarting("Add ")
                                             \cup AdviceStarting("Increase pillar word count by ")
                                             \cup AdviceStarting("Expand "))

\* all three recommendations at once, in order
C19_Witness ==
  /\ AnalyzedCoverage
  /\ clusterOut.ret.recommendations =
       << AddMoreAdvice(3), IncreaseAdvice(1), ExpandAdvice(2) >>

\* ten clusters of 1500 words under a pillar of 3000 words: the success message
C19_WitnessSuccess ==
  /\ AnalyzedCoverage
  /\ Len(AnalyzedPillar.clusters) = 10
  /\ clusterOut.ret.recommendations = <<CoverageSuccess>>

\* a pillar without its clusters: what tells one pillar object from another
WithoutClusters(pillar) == [ pillar EXCEPT !.clusters = <<>> ]

\* the step keeps every pillar of the list in its place, and a pillar's
\* clusters can only grow at the end
SamePillarsInPlace ==
  /\ Len(pillars') = Len(pillars)
  /\ \A i \in DOMAIN pillars :
       /\ WithoutClusters(pillars'[i]) = WithoutClusters(pillars[i])
       /\ Len(pillars'[i].clusters) >= Len(pillars[i].clusters)
       /\ SubSeq(pillars'[i].clusters, 1, Len(pillars[i].clusters)) = pillars[i].clusters

\* C20: the session list pillars is the sequence of the pillars create_pillar
\* returned, in call order: create_pillar appends exactly the pillar it
\* returns, add_clusters_to_pillar only adds clusters to a pillar that stays
\* in its place, and every other operation leaves the list as it is.
C20_PillarsAppendOnly ==
  [][ IF clusterOut'.op = "create_pillar"
        THEN pillars' = Append(pillars, clusterOut'.ret)
        ELSE IF clusterOut'.op = "add_clusters_to_pillar"
          THEN SamePillarsInPlace
          ELSE pillars' = pillars ]_vars

\* two different pillars in the order of their creation, after clusters were
\* added to the second
C20_Witness ==
  /\ Len(pillars) = 2
  /\ pillars[1].title = <<"S","E","O"," ","G","u","i","d","e">>
  /\ pillars[2].title = <<>>
  /\ clusterOut.pc = "returned"
  /\ clusterOut.op = "add_clusters_to_pillar"
  /\ pillars[1].clusters = <<>>
  /\ Len(pillars[2].clusters) = 2

\* the title lowercased, with a hyphen for every space
LowercasedAndHyphenated(title) ==
  [ i \in DOMAIN title |->
      IF title[i] = " " THEN "-"
      ELSE IF title[i] \in UpperSet THEN LowerChar(title[i]) ELSE title[i] ]

\* the slug of an object just built from a dict: the slug of the dict, or the
\* one made of the title
SlugAsConstructed(object, data) ==
  object.url_slug =
    IF "url_slug" \in DOMAIN data /\ data.url_slug # <<>>
      THEN data.url_slug
      ELSE LowercasedAndHyphenated(object.title)

\* the pillar the step has loaded has the slugs of its construction
LoadedWithSlugs ==
  LET pillar == pillars'[clusterOut'.index]
      data == clusterOut'.pillar_data
  IN  /\ Len(pillars') = Len(pillars) + 1
      /\ SlugAsConstructed(pillar, data)
      /\ \A k \in DOMAIN pillar.clusters : SlugAsConstructed(pillar.clusters[k], data.clusters[k])

\* the step keeps the slug of every pillar and cluster there was, and a
\* cluster it adds has the slug made of its title
SlugsKept ==
  \A i \in DOMAIN pillars :
    /\ i \in DOMAIN pillars'
    /\ pillars'[i].url_slug = pillars[i].url_slug
    /\ \A k \in DOMAIN pillars[i].clusters :
         /\ k \in DOMAIN pillars'[i].clusters
         /\ pillars'[i].clusters[k].url_slug = pillars[i].clusters[k].url_slug
    /\ \A k \in DOMAIN pillars'[i].clusters \ DOMAIN pillars[i].clusters :
         pillars'[i].clusters[k].url_slug
           = LowercasedAndHyphenated(pillars'[i].clusters[k].title)

\* C21: a ClusterContent or PillarPage built without a url_slug has the title
\* lowercased with a hyphen for each space as its slug, one built with a
\* url_slug keeps it, and no later operation (a new title, add_clusters_to_pillar,
\* coverage analysis, linking, export) changes the slug of a pillar or cluster.
C21_SlugSetOnceAtConstruction ==
  [][ /\ clusterOut'.op = "load" => LoadedWithSlugs
      /\ SlugsKept ]_vars

\* a pillar and a cluster that got a new title and still have the slug made
\* of the title they were built with, next to a cluster with a slug of its own
C21_Witness ==
  /\ Len(pillars) = 1
  /\ pillars[1].title = NewTitle
  /\ pillars[1].url_slug = <<"a","-","b","-","c","-","-","d">>
  /\ Len(pillars[1].clusters) = 3
  /\ pillars[1].clusters[1].title = NewTitle
  /\ pillars[1].clusters[1].url_slug = <<"o","n","-","p","a","g","e">>
  /\ pillars[1].clusters[2].url_slug = <<"a","l","l","/","L","i","n","k","s">>
  /\ clusterOut.pc = "returned"
  /\ clusterOut.op = "export_cluster_map"

ExportedMermaid ==
  /\ clusterOut.pc = "returned"
  /\ clusterOut.op = "export_cluster_map"
  /\ clusterOut.ret.format = "mermaid"

ExportedPillar == pillars[clusterOut.index]

\* the lines of one kind of the exported diagram, in their order
DiagramLines(kind) == SelectSeq(clusterOut.ret.text, LAMBDA line : line[1] = kind)

\* the i-th letter after 'A' (i from 1): 'B' for the first cluster
LetterAfterA(i) == UpperChars[i + 1]

\* C22: for a pillar of at most 25 clusters the mermaid export declares the
\* pillar as node 'A' and the i-th cluster as the i-th letter after 'A', so
\* that the node ids are pairwise distinct uppercase letters, and it has two
\* edges per cluster (A --> X, X --> A), one style line for the pillar and
\* one per cluster, all in the order of the cluster list.
C22_MermaidNodeLetters ==
  (ExportedMermaid /\ Len(ExportedPillar.clusters) <= 25) =>
    LET clusters == ExportedPillar.clusters
        n == Len(clusters)
        nodes == DiagramLines("node")
        edges == DiagramLines("edge")
        styles == DiagramLines("style")
    IN  /\ Len(nodes) = n + 1
        /\ nodes[1] = <<"node", "A", ExportedPillar.title>>
        /\ \A i \in 1..n : nodes[i + 1] = <<"node", LetterAfterA(i), clusters[i].title>>
        /\ \A i \in DOMAIN nodes : nodes[i][2] \in UpperSet
        /\ \A i \in DOMAIN nodes : \A j \in DOMAIN nodes : i # j => nodes[i][2] # nodes[j][2]
        /\ Len(edges) = 2 * n
        /\ \A i \in 1..n :
             /\ edges[2 * i - 1] = <<"edge", "A", LetterAfterA(i)>>
             /\ edges[2 * i] = <<"edge", LetterAfterA(i), "A">>
        /\ Len(styles) = n + 1
        /\ styles[1][2] = "A"
        /\ \A i \in 1..n : styles[i + 1][2] = LetterAfterA(i)

\* the diagram of a pillar of 25 clusters: the last cluster is node 'Z'
C22_Witness ==
  /\ ExportedMermaid
  /\ Len(ExportedPillar.clusters) = 25
  /\ DiagramLines("node")[26][2] = "Z"
  /\ DiagramLines("edge")[50] = <<"edge", "Z", "A">>

\* C24: in a report of analyze_cluster_coverage for positive word counts the
\* completeness_score is 100 exactly when the recommendations are the single
\* success message: a score of 100 never comes with a recommendation to add
\* clusters, to increase the pillar word count or to expand clusters.
C24_FullScoreIffSuccessMessage ==
  ( /\ AnalyzedCoverage
    /\ AnalyzedPillar.word_count > 0
    /\ \A i \in DOMAIN AnalyzedPillar.clusters : AnalyzedPillar.clusters[i].word_count > 0 ) =>
    ( clusterOut.ret.completeness_score = 1000
        <=> clusterOut.ret.recommendations = <<CoverageSuccess>> )
(***************************************************************************)
(* Properties of the content quality checker (invariants of SpecQuality).  *)
(***************************************************************************)
Checked == qualityOut.pc = "done"

\* the texts of the recommendations check_content returned
AdviceTexts == { qualityOut.ret.recommendations[k].text : k \in DOMAIN qualityOut.ret.recommendations }

ReadabilityAdvice ==
  { "Improve readability: Use shorter sentences and simpler words",
    "Add more headings and bullet points to break up text" }

EeatAdvice ==
  { "Add personal experience and real-world examples",
    "Include citations and references to authoritative sources",
    "Demonstrate expertise with data, statistics, and research" }

SeoAdvice ==
  { "Include target keyword in the first paragraph",
    "Expand content to at least 1,500 words",
    "Add more internal links to related content (5-10 recommended)" }

CompletenessAdvice ==
  { "Add an FAQ section to address common questions",
    "Add a conclusion or summary section" }

AnySubScoreBelow70 ==
  \/ RatLess(qualityOut.locals.readability, 70)
  \/ qualityOut.locals.eeat < 70
  \/ qualityOut.locals.seo < 70
  \/ qualityOut.locals.completeness < 70

\* C7: a sub-score below 70 puts at least one advice of that sub-score among
\* the recommendations, and the single "Content quality is excellent" message
\* is returned only when no sub-score is below 70.
C7_AdviceForEveryLowSubScore ==
  Checked =>
    /\ RatLess(qualityOut.locals.readability, 70) => AdviceTexts \cap ReadabilityAdvice # {}
    /\ qualityOut.locals.eeat < 70 => AdviceTexts \cap EeatAdvice # {}
    /\ qualityOut.locals.seo < 70 => AdviceTexts \cap SeoAdvice # {}
    /\ qualityOut.locals.completeness < 70 => AdviceTexts \cap CompletenessAdvice # {}
    /\ qualityOut.ret.recommendations = << ExcellentAdvice >> => ~AnySubScoreBelow70

\* the letter the thresholds give a score in tenths
GradeOfTenths(tenths) ==
  IF tenths >= 900 THEN "A"
  ELSE IF tenths >= 800 THEN "B"
  ELSE IF tenths >= 700 THEN "C"
  ELSE IF tenths >= 600 THEN "D"
  ELSE "F"

\* C8: the grade of a returned QualityScore is the letter the thresholds
\* (90 A, 80 B, 70 C, 60 D, else F) give the overall_score of the same
\* QualityScore.
C8_GradeOfReturnedOverall ==
  Checked => qualityOut.ret.grade = GradeOfTenths(qualityOut.ret.overall_score)

\* |20 * overall_score - (5 * readability + 6 * eeat + 5 * seo + 4 * completeness)|
\* is at most 1 when overall_score is in tenths, cleared of the denominator
\* of readability: the returned overall is within 0.05 of the weighted sum
WithinHalfTenthOfWeightedSum ==
  LET l == qualityOut.locals
      r == l.readability
      rest == 2 * qualityOut.ret.overall_score
              - (5 * r.whole + 6 * l.eeat + 5 * l.seo + 4 * l.completeness)
      diff == rest * r.den - 5 * r.num
  IN  diff <= r.den /\ -diff <= r.den

\* C9: the four sub-scores check_content returns lie in [0,100], and so does
\* the overall score, which is the 0.25/0.30/0.25/0.20 weighted sum of the
\* sub-scores rounded to 1 decimal.
C9_ScoresWithinRange ==
  Checked =>
    /\ \A f \in { "readability_score", "eeat_score", "seo_score",
                  "completeness_score", "overall_score" } :
         qualityOut.ret[f] \in 0..1000
    /\ WithinHalfTenthOfWeightedSum

\* a content whose E-E-A-T points add up to more than 100 and is scored 100
C9_Witness ==
  /\ Checked
  /\ EeatPoints(qualityOut.content) > 100
  /\ qualityOut.ret.eeat_score = 1000
  /\ qualityOut.ret.overall_score > 0

NoTargetKeyword(metadata) == DictGet(metadata, "target_keyword", <<>>) = <<>>

\* C10: without a target keyword in the metadata, or with an empty one, the
\* SEO score is exactly 50, whatever the content, the title and the meta
\* description are.
C10_NeutralSeoWithoutKeyword ==
  (Checked /\ NoTargetKeyword(qualityOut.metadata)) =>
    /\ qualityOut.locals.seo = 50
    /\ qualityOut.ret.seo_score = 500

\* a content with links and a heading, a title and a meta description, no
\* target keyword: the other SEO rules would give points, the score is 50
C10_Witness ==
  /\ Checked
  /\ "target_keyword" \notin DOMAIN qualityOut.metadata
  /\ "title" \in DOMAIN qualityOut.metadata
  /\ LinkCount(qualityOut.content) >= 5
  /\ HeadingCount(qualityOut.content) >= 1
  /\ qualityOut.ret.seo_score = 500


\* the text holds an opening bracket, one or more digits and a closing bracket
HasBracketedNumber(s) ==
  \E i \in DOMAIN s, j \in DOMAIN s :
    /\ i + 1 < j
    /\ s[i] = "[" /\ s[j] = "]"
    /\ \A k \in (i + 1)..(j - 1) : s[k] \in DigitChars

\* the text holds a bracketed number, 'source:' or 'reference:'
HasCitationLikePattern(s) ==
  \/ HasBracketedNumber(s)
  \/ Contains(s, <<"s","o","u","r","c","e",":">>)
  \/ Contains(s, <<"r","e","f","e","r","e","n","c","e",":">>)

\* the text holds none of the signals the E-E-A-T score is documented to count
NoEeatSignal(s) ==
  /\ IndicatorCount(EXPERIENCE_INDICATORS, s) = 0
  /\ IndicatorCount(EXPERTISE_INDICATORS, s) = 0
  /\ IndicatorCount(TRUST_INDICATORS, s) = 0
  /\ ~HasCitationLikePattern(s)
  /\ \A k \in DOMAIN authoritative_domains :
       ~Contains(s, <<".">> \o authoritative_domains[k])

\* the bonus calculate_eeat_score adds for the citations it counts
CitationBonus(s) == Min(10, CitationCount(s) * 2)

\* C11: a content with none of the experience, expertise or trust indicators,
\* no citation-like pattern (a bracketed number, 'source:' or 'reference:')
\* and no '.edu', '.gov' or '.org' has the E-E-A-T score 0; the citation bonus
\* is given only for citation-like patterns and is never more than 10.
C11_EeatOnlyFromDocumentedSignals ==
  Checked =>
    /\ NoEeatSignal(StrLower(qualityOut.content)) => qualityOut.ret.eeat_score = 0
    /\ CitationBonus(StrLower(qualityOut.content)) <= 10
    /\ CitationBonus(StrLower(qualityOut.content)) > 0
         => HasCitationLikePattern(StrLower(qualityOut.content))
(***************************************************************************)
(* Properties of the command-line wrapper (invariants of SpecCli).         *)
(***************************************************************************)
Exited == cliOut.pc = "exited"

\* the printed document is an object whose only key is 'error'
IsErrorObject(document) == document.type = "object" /\ DOMAIN document.value = { "error" }

\* the request names a module the wrapper does not know, or none
UnknownModuleRequest(stdin) ==
  stdin.kind = "object" /\ DictGet(stdin.data, "module", "") \notin
    { "intent_analyzer", "topic_cluster", "quality_checker" }

\* the request names a known module and an action that module does not have
UnknownActionRequest(stdin) ==
  /\ stdin.kind = "object"
  /\ LET module == DictGet(stdin.data, "module", "")
         action == DictGet(stdin.data, "action", PyNone)
     IN  \/ module = "intent_analyzer"
            /\ action \notin { "analyze_batch", "get_distribution", "analyze_single" }
         \/ module = "topic_cluster"
            /\ action \notin { "generate_ideas", "analyze_coverage",
                               "generate_linking_strategy", "export" }
         \/ module = "quality_checker" /\ action # "check_quality"

\* a failure at the boundary: a malformed envelope, an unknown module, an
\* unknown action, or an exception during processing
BoundaryFailure ==
  \/ cliOut.stdin.kind # "object"
  \/ UnknownModuleRequest(cliOut.stdin)
  \/ UnknownActionRequest(cliOut.stdin)
  \/ MainOutcome(cliOut.stdin).raised # "none"

\* C6: every failure at the boundary is reported as a single-key error object
\* together with a non-zero exit status, and no run exits with status 0 after
\* printing an error object.
C6_ErrorObjectMeansFailureStatus ==
  Exited =>
    /\ BoundaryFailure => (IsErrorObject(cliOut.stdout) /\ cliOut.status # 0)
    /\ IsErrorObject(cliOut.stdout) => cliOut.status # 0


InitIntent ==
  /\ intentOut \in IntentCalls
  /\ pillars = <<>>
  /\ clusterOut = ClusterIdle
  /\ qualityOut = QualityIdle
  /\ cliOut = CliIdle

NextIntent == AnalyzeQuery \/ AnalyzeBatch \/ GetIntentDistribution

SpecIntent == InitIntent /\ [][NextIntent]_vars

InitCluster ==
  /\ intentOut = IntentIdle
  /\ pillars = <<>>
  /\ clusterOut = ClusterIdle
  /\ qualityOut = QualityIdle
  /\ cliOut = CliIdle

NextCluster ==
  \/ CreatePillar
  \/ GenerateClusterIdeas
  \/ AddClustersToPillar
  \/ GenerateInternalLinkingStrategy
  \/ AnalyzeClusterCoverage
  \/ ExportClusterMap
  \/ RebuildFromExport

SpecCluster == InitCluster /\ [][NextCluster]_vars

InitCoverage ==
  /\ intentOut = IntentIdle
  /\ pillars \in { <<pillar>> : pillar \in CoveragePillars }
  /\ clusterOut = ClusterIdle
  /\ qualityOut = QualityIdle
  /\ cliOut = CliIdle

NextCoverage == AnalyzeClusterCoverage

SpecCoverage == InitCoverage /\ [][NextCoverage]_vars

InitSlug ==
  /\ intentOut = IntentIdle
  /\ pillars = <<>>
  /\ clusterOut \in SlugCalls
  /\ qualityOut = QualityIdle
  /\ cliOut = CliIdle

NextSlug ==
  \/ LoadPillar
  \/ RetitlePillar
  \/ RetitleCluster
  \/ (clusterOut.pc = "returned" /\ AddClustersToPillar)
  \/ (clusterOut.pc = "returned" /\ AnalyzeClusterCoverage)
  \/ (clusterOut.pc = "returned" /\ GenerateInternalLinkingStrategy)
  \/ (clusterOut.pc = "returned" /\ ExportClusterMap)

SpecSlug == InitSlug /\ [][NextSlug]_vars

InitMermaid ==
  /\ intentOut = IntentIdle
  /\ pillars \in { <<pillar>> : pillar \in MermaidPillars }
  /\ clusterOut = ClusterIdle
  /\ qualityOut = QualityIdle
  /\ cliOut = CliIdle

NextMermaid == ExportClusterMap

SpecMermaid == InitMermaid /\ [][NextMermaid]_vars

InitQuality ==
  /\ intentOut = IntentIdle
  /\ pillars = <<>>
  /\ clusterOut = ClusterIdle
  /\ qualityOut \in QualityCalls
  /\ cliOut = CliIdle

NextQuality == CheckContent

SpecQuality == InitQuality /\ [][NextQuality]_vars

InitCli ==
  /\ intentOut = IntentIdle
  /\ pillars = <<>>
  /\ clusterOut = ClusterIdle
  /\ qualityOut = QualityIdle
  /\ cliOut \in { [ pc |-> "start", stdin |-> s ] : s \in Stdins }

NextCli == Main

SpecCli == InitCli /\ [][NextCli]_vars

====
